---- MODULE Spec2Model ----
(***************************************************************************)
(* A model of the SQL storage authority (sa/sa.go): the authorization      *)
(* lifecycle over the two authorization tables, the issuance ledger and    *)
(* the policy counters.                                                    *)
(*                                                                         *)
(* Every handler runs against the committed tables.  A handler that opens  *)
(* a transaction is split where another caller can interleave: its read    *)
(* phase (Begin, the argument checks and the SELECTs) is one step, and its *)
(* write phase (the INSERT/UPDATE/DELETE statements followed by Commit or  *)
(* Rollback) is a second step.  The write statements take row locks that   *)
(* are held until the transaction ends and their effects are invisible to  *)
(* other transactions until Commit, so the write phase is atomic at its    *)
(* commit point.  UPDATE and DELETE statements evaluate their WHERE clause *)
(* against the rows as committed at that point.                            *)
(***************************************************************************)
EXTENDS Integers, Sequences, FiniteSets, TLC

\* ---------------------------------------------------------------- bounds
MaxChallenges == 2

\* Authorization IDs core.NewToken() can produce.
AuthzIDs == {"a1", "a2"}
\* Concurrent callers.
Procs == {1, 2}
\* Validation states a challenge row can carry.
ChallVals == {0, 1}

\* core.AcmeStatus values of the data model.
Statuses == {"pending", "valid", "invalid", "deactivated"}

\* The challenge lists a caller supplies: up to MaxChallenges challenges, all
\* in the same validation state.
ChallengeLists == {[i \in 1..n |-> v] : n \in 0..MaxChallenges, v \in ChallVals}

\* Expiry times an authorization can carry.
Expiries == {1, 2}

\* What the single caller passes: any status, any challenge list.
AnyInput == [snap |-> TRUE, lists |-> ChallengeLists, newStatus |-> Statuses,
             updateStatus |-> Statuses, finalStatus |-> Statuses,
             expires |-> Expiries, identifiers |-> {"example.com"},
             regIDs |-> {1}]

\* What the two racing callers pass: the arguments that get past the
\* handlers' argument checks, and one validated challenge.
RaceInput == [snap |-> FALSE, lists |-> {<<1>>}, newStatus |-> {"pending"},
              updateStatus |-> {"pending"}, finalStatus |-> {"valid", "invalid"},
              expires |-> {2}, identifiers |-> {"example.com"},
              regIDs |-> {1}]

VARIABLES
  authz,                  \* table authz: id -> row
  pendingAuthorizations,  \* legacy table pendingAuthorizations: id -> row
  challenges,             \* table challenges, per authorizationID, ORDER BY id
  certificates,           \* table certificates: serial -> row
  certificateStatus,      \* table certificateStatus: serial -> row
  issuedNames,            \* table issuedNames: rows (reversedName, serial, notBefore)
  fqdnSets,               \* table fqdnSets: rows (setHash, serial, issued)
  call,                   \* per caller: the handler it is in and its locals
  pre                     \* the committed tables when the running call began

authzVars == <<authz, pendingAuthorizations, challenges, pre>>
ledgerVars == <<certificates, certificateStatus, issuedNames, fqdnSets>>
vars == <<authz, pendingAuthorizations, challenges, certificates,
          certificateStatus, issuedNames, fqdnSets, call, pre>>

\* The committed authorization tables as one value.
DB == [authz |-> authz,
       pendingAuthorizations |-> pendingAuthorizations,
       challenges |-> challenges]

\* var result core.Authorization: the zero value a handler returns with an
\* error.
NoAuthorization == [status |-> "-", challenges |-> <<>>]

Idle == [op |-> "none", pc |-> "idle", id |-> "-", status |-> "-", expires |-> 0,
         identifier |-> "-", registrationID |-> 0,
         challs |-> <<>>, dbStatus |-> "-", table |-> "-",
         result |-> "-", tx |-> "none", faulted |-> FALSE,
         out |-> NoAuthorization]

\* Statement at which the storage driver reports an error, if any.
Faults == [at : {"none", "begin", "select", "insert", "delete", "update",
                 "selectChallenges", "commit"}, i : {0}]
          \cup [at : {"updateChallenge", "insertChallenge"}, i : 1..MaxChallenges]

\* ------------------------------------------------------ storage primitives

\* An insert that replaces the row of an existing primary key.
TxInsertReplacing(w, table, id, row, failed) ==
  IF failed THEN [w |-> w, err |-> TRUE]
  ELSE [w |-> [w EXCEPT ![table] =
                 [k \in (DOMAIN @) \cup {id} |-> IF k = id THEN row ELSE @[k]]],
        err |-> FALSE]

\* gorp Insert: a row with an existing primary key is rejected.
TxInsert(w, table, id, row, failed) ==
  IF failed \/ id \in DOMAIN w[table]
  THEN [w |-> w, err |-> TRUE]
  ELSE [w |-> [w EXCEPT ![table] = @ @@ (id :> row)], err |-> FALSE]

\* gorp Update of a table without version column: UPDATE ... WHERE id = ?
TxUpdate(w, table, id, row, failed) ==
  IF failed THEN [w |-> w, err |-> TRUE, n |-> 0]
  ELSE IF id \in DOMAIN w[table]
  THEN [w |-> [w EXCEPT ![table][id] = row], err |-> FALSE, n |-> 1]
  ELSE [w |-> w, err |-> FALSE, n |-> 0]

\* gorp Delete: DELETE ... WHERE id = ?  (the table's version column is set
\* up outside this file; the delete is taken to remove the row looked up)
TxDelete(w, table, id, failed) ==
  IF failed THEN [w |-> w, err |-> TRUE, n |-> 0]
  ELSE IF id \in DOMAIN w[table]
  THEN [w |-> [w EXCEPT ![table] = [k \in (DOMAIN @) \ {id} |-> @[k]]],
        err |-> FALSE, n |-> 1]
  ELSE [w |-> w, err |-> FALSE, n |-> 0]

\* Rollback(tx, err): the transaction's writes are discarded.
Rollback(db, w) == db

\* tx.Commit(): the transaction's writes become the committed tables; a
\* failed commit leaves them as they were.
Commit(db, w, failed) == IF failed THEN db ELSE w

\* The two authorization tables, in lookup order.
authorizationTables == <<"pendingAuthorizations", "authz">>

statusIsPending(status) == status = "pending"

\* getAuthz(tx, id): the authorization and the table that holds it.
getAuthz(db, id, failed) ==
  IF failed THEN [err |-> TRUE, status |-> "-", table |-> "-"]
  ELSE IF id \in DOMAIN db[authorizationTables[1]]
  THEN [err |-> FALSE, status |-> db[authorizationTables[1]][id].status,
        table |-> authorizationTables[1]]
  ELSE IF id \in DOMAIN db[authorizationTables[2]]
  THEN [err |-> FALSE, status |-> db[authorizationTables[2]][id].status,
        table |-> authorizationTables[2]]
  ELSE [err |-> TRUE, status |-> "-", table |-> "-"]

\* authzIdExists(tx, id): a row with this id in either table.
authzIdExists(db, id) ==
  \E t \in 1..Len(authorizationTables) : id \in DOMAIN db[authorizationTables[t]]

\* Rows 1..k of the stored challenges rewritten from the supplied ones.
RewriteChallenges(stored, supplied, k) ==
  [i \in 1..Len(stored) |-> IF i <= k THEN supplied[i] ELSE stored[i]]

\* updateChallenges without the comparison of the two lengths.
updateChallengesAnyCount(w, authID, supplied, fault) ==
  LET challs == w.challenges[authID] IN
  IF fault.at = "selectChallenges" THEN [w |-> w, err |-> TRUE]
  ELSE [w |-> [w EXCEPT !.challenges[authID] =
                 RewriteChallenges(challs, supplied, Len(supplied))],
        err |-> FALSE]

updateChallenges(w, authID, supplied, fault) ==
  LET challs == w.challenges[authID] IN
  IF fault.at = "selectChallenges" THEN [w |-> w, err |-> TRUE]
  ELSE IF Len(challs) # Len(supplied) THEN [w |-> w, err |-> TRUE]
  ELSE IF fault.at = "updateChallenge" /\ fault.i <= Len(supplied)
  THEN [w |-> [w EXCEPT !.challenges[authID] =
                 RewriteChallenges(challs, supplied, fault.i - 1)],
        err |-> TRUE]
  ELSE [w |-> [w EXCEPT !.challenges[authID] =
                 RewriteChallenges(challs, supplied, Len(supplied))],
        err |-> FALSE]

\* ------------------------------------------------------------ call frames

\* The caller's frame when a handler returns.
Returned(c, ok, tx) == [c EXCEPT !.pc = "done",
                                 !.result = IF ok THEN "ok" ELSE "error",
                                 !.tx = tx]

Install(db) ==
  /\ authz' = db.authz
  /\ pendingAuthorizations' = db.pendingAuthorizations
  /\ challenges' = db.challenges

NoWrite == UNCHANGED <<authz, pendingAuthorizations, challenges>>

\* A handler is entered by an idle caller; in.snap says whether the committed
\* tables are recorded in pre for the comparison at return.
Enter(p, in) ==
  /\ call[p].pc = "idle"
  /\ pre' = IF in.snap THEN DB ELSE pre

\* An authorization row: the columns the handlers here read or write.
Row(status, expires, identifier, registrationID) ==
  [status |-> status, expires |-> expires, identifier |-> identifier,
   registrationID |-> registrationID]

\* ------------------------------------------------ NewPendingAuthorization

\* Begin and the first core.NewToken().
NewPendingAuthorization(p, in) ==
  /\ Enter(p, in)
  /\ \E status \in in.newStatus, expires \in in.expires, challs \in in.lists,
        identifier \in in.identifiers, registrationID \in in.regIDs,
        tok \in AuthzIDs,
        fault \in {f \in Faults : f.at \in {"none", "begin"}} :
       LET c == [Idle EXCEPT !.op = "NewPendingAuthorization",
                             !.status = status, !.expires = expires,
                             !.identifier = identifier,
                             !.registrationID = registrationID,
                             !.challs = challs,
                             !.faulted = fault.at # "none"] IN
       call' = [call EXCEPT ![p] =
                  IF fault.at = "begin" THEN Returned(c, FALSE, "none")
                  ELSE [c EXCEPT !.pc = "generate", !.id = tok, !.tx = "open"]]
  /\ NoWrite

\* for authzIdExists(tx, authz.ID) { authz.ID = core.NewToken() }
NewPendingGenerate(p) ==
  /\ call[p].op = "NewPendingAuthorization"
  /\ call[p].pc = "generate"
  /\ \E tok \in AuthzIDs :
       call' = [call EXCEPT ![p] =
                  IF authzIdExists(DB, call[p].id)
                  THEN [@ EXCEPT !.id = tok]
                  ELSE [@ EXCEPT !.pc = "write"]]
  /\ NoWrite
  /\ UNCHANGED pre

\* NewPendingAuthorization storing the status the caller passed.
NewPendingStatusAsSupplied(status) == status

\* The status stored by NewPendingAuthorization whatever the caller passed.
NewPendingStatus(status) == "pending"

\* The challenge inserts with the error of a failed one dropped.
InsertChallengesDroppingError(w, authID, supplied, fault) ==
  IF fault.at = "insertChallenge" /\ fault.i <= Len(supplied)
  THEN [w |-> [w EXCEPT !.challenges[authID] =
                 @ \o SubSeq(supplied, 1, fault.i - 1)],
        err |-> FALSE]
  ELSE [w |-> [w EXCEPT !.challenges[authID] = @ \o supplied], err |-> FALSE]

\* The challenge rows inserted one by one; fault.i is the insert that fails.
InsertChallenges(w, authID, supplied, fault) ==
  IF fault.at = "insertChallenge" /\ fault.i <= Len(supplied)
  THEN [w |-> [w EXCEPT !.challenges[authID] =
                 @ \o SubSeq(supplied, 1, fault.i - 1)],
        err |-> TRUE]
  ELSE [w |-> [w EXCEPT !.challenges[authID] = @ \o supplied], err |-> FALSE]

NewPendingWrites(db, c, fault) ==
  LET ins == TxInsert(db, "authz", c.id, Row(NewPendingStatus(c.status), c.expires,
                          c.identifier, c.registrationID),
                      fault.at = "insert") IN
  IF ins.err THEN ins
  ELSE InsertChallenges(ins.w, c.id, c.challs, fault)

\* The authorization NewPendingAuthorization returns after its inserts:
\* pendingAuthz.Authorization with authz.Challenges, each challenge replaced
\* by modelToChallenge of the row inserted for it.  A challenge row's ID is
\* its place among the rows of its authorization in ID order.
NewPendingResult(db, c) ==
  [status |-> NewPendingStatus(c.status),
   challenges |-> [i \in 1..Len(c.challs) |->
                     [ID |-> Len(db.challenges[c.id]) + i,
                      val |-> c.challs[i]]]]

NewPendingInsert(p) ==
  /\ call[p].op = "NewPendingAuthorization"
  /\ call[p].pc = "write"
  /\ \E fault \in {f \in Faults : f.at \in {"none", "insert", "insertChallenge",
                                            "commit"}} :
       LET r == NewPendingWrites(DB, call[p], fault) IN
       /\ Install(IF r.err THEN Rollback(DB, r.w)
                  ELSE Commit(DB, r.w, fault.at = "commit"))
       /\ call' = [call EXCEPT ![p] =
                     Returned([@ EXCEPT !.faulted = fault.at # "none",
                                        !.out = IF r.err THEN NoAuthorization
                                                ELSE NewPendingResult(DB, call[p])],
                              ~r.err /\ fault.at # "commit", "closed")]
  /\ UNCHANGED pre

\* --------------------------------------------- UpdatePendingAuthorization

\* The checks made before the first write; TRUE when the update is refused.
\* The update's checks without the one on the stored status.
UpdatePendingRefusedIgnoringStored(status, found) ==
  \/ ~statusIsPending(status)
  \/ found.err

UpdatePendingRefused(status, found) ==
  \/ ~statusIsPending(status)
  \/ found.err
  \/ ~statusIsPending(found.status)

UpdatePendingAuthorization(p, in) ==
  /\ Enter(p, in)
  /\ \E id \in AuthzIDs, status \in in.updateStatus, expires \in in.expires,
        identifier \in in.identifiers, registrationID \in in.regIDs,
        challs \in in.lists,
        fault \in {f \in Faults : f.at \in {"none", "begin", "select"}} :
       LET c == [Idle EXCEPT !.op = "UpdatePendingAuthorization", !.id = id,
                             !.status = status, !.expires = expires,
                             !.identifier = identifier,
                             !.registrationID = registrationID,
                             !.challs = challs,
                             !.faulted = fault.at # "none"]
           found == getAuthz(DB, id, fault.at = "select")
       IN
       call' = [call EXCEPT ![p] =
                  IF fault.at = "begin" THEN Returned(c, FALSE, "none")
                  ELSE IF UpdatePendingRefused(status, found)
                  THEN Returned([c EXCEPT !.dbStatus = found.status,
                                          !.table = found.table],
                                FALSE, "closed")
                  ELSE [c EXCEPT !.pc = "write", !.dbStatus = found.status,
                                 !.table = found.table, !.tx = "open"]]
  /\ NoWrite

\* The table the row update is sent to ("none": the table-mismatch error).
UpdatePendingTable(table) ==
  IF table = "pendingAuthorization" THEN "pendingAuthorizations"
  ELSE IF table = "authz" THEN "authz"
  ELSE "none"

UpdatePendingWrites(db, c, fault) ==
  LET table == UpdatePendingTable(c.table) IN
  IF table = "none" THEN [w |-> db, err |-> TRUE]
  ELSE LET upd == TxUpdate(db, table, c.id, Row(c.status, c.expires, c.identifier,
                          c.registrationID),
                           fault.at = "update") IN
       IF upd.err THEN [w |-> upd.w, err |-> TRUE]
       ELSE updateChallenges(upd.w, c.id, c.challs, fault)

UpdatePendingWrite(p) ==
  /\ call[p].op = "UpdatePendingAuthorization"
  /\ call[p].pc = "write"
  /\ \E fault \in {f \in Faults : f.at \in {"none", "update", "selectChallenges",
                                            "updateChallenge", "commit"}} :
       LET r == UpdatePendingWrites(DB, call[p], fault) IN
       /\ Install(IF r.err THEN Rollback(DB, r.w)
                  ELSE Commit(DB, r.w, fault.at = "commit"))
       /\ call' = [call EXCEPT ![p] =
                     Returned([@ EXCEPT !.faulted = fault.at # "none"],
                              ~r.err /\ fault.at # "commit", "closed")]
  /\ UNCHANGED pre

\* -------------------------------------------------- FinalizeAuthorization

\* The finalize's checks without the one on the target status.
FinalizeRefusedAllowingPendingTarget(status, found) ==
  \/ found.err
  \/ ~statusIsPending(found.status)

\* The checks made before the first write; TRUE when the finalize is refused.
FinalizeRefused(status, found) ==
  \/ found.err
  \/ ~statusIsPending(found.status)
  \/ statusIsPending(status)

FinalizeAuthorization(p, in) ==
  /\ Enter(p, in)
  /\ \E id \in AuthzIDs, status \in in.finalStatus, expires \in in.expires,
        identifier \in in.identifiers, registrationID \in in.regIDs,
        challs \in in.lists,
        fault \in {f \in Faults : f.at \in {"none", "begin", "select"}} :
       LET c == [Idle EXCEPT !.op = "FinalizeAuthorization", !.id = id,
                             !.status = status, !.expires = expires,
                             !.identifier = identifier,
                             !.registrationID = registrationID,
                             !.challs = challs,
                             !.faulted = fault.at # "none"]
           found == getAuthz(DB, id, fault.at = "select")
       IN
       call' = [call EXCEPT ![p] =
                  IF fault.at = "begin" THEN Returned(c, FALSE, "none")
                  ELSE IF FinalizeRefused(status, found)
                  THEN Returned([c EXCEPT !.dbStatus = found.status,
                                          !.table = found.table],
                                FALSE, "closed")
                  ELSE [c EXCEPT !.pc = "write", !.dbStatus = found.status,
                                 !.table = found.table, !.tx = "open"]]
  /\ NoWrite

\* Legacy finalization: insert the final authz row, delete the old
\* pendingAuthorizations row.
\* Legacy finalization that leaves the old pendingAuthorizations row.
FinalizeLegacyWithoutDelete(db, c, fault) ==
  LET ins == TxInsert(db, "authz", c.id, Row(c.status, c.expires, c.identifier,
                          c.registrationID),
                      fault.at = "insert") IN
  [w |-> ins.w, err |-> ins.err]

FinalizeLegacy(db, c, fault) ==
  LET ins == TxInsert(db, "authz", c.id, Row(c.status, c.expires, c.identifier,
                          c.registrationID),
                      fault.at = "insert") IN
  IF ins.err THEN [w |-> ins.w, err |-> TRUE]
  ELSE LET del == TxDelete(ins.w, "pendingAuthorizations", c.id,
                           fault.at = "delete") IN
       [w |-> del.w, err |-> del.err]

\* A pending authz found in the authz table: UPDATE the existing row.
FinalizeInPlace(db, c, fault) ==
  LET upd == TxUpdate(db, "authz", c.id, Row(c.status, c.expires, c.identifier,
                          c.registrationID),
                      fault.at = "update") IN
  [w |-> upd.w, err |-> upd.err]

FinalizeWrites(db, c, fault) ==
  LET moved == IF c.table = "pendingAuthorizations" THEN FinalizeLegacy(db, c, fault)
               ELSE IF c.table = "authz" THEN FinalizeInPlace(db, c, fault)
               ELSE [w |-> db, err |-> TRUE]
  IN
  IF moved.err THEN moved
  ELSE updateChallenges(moved.w, c.id, c.challs, fault)

FinalizeWrite(p) ==
  /\ call[p].op = "FinalizeAuthorization"
  /\ call[p].pc = "write"
  /\ \E fault \in {f \in Faults : f.at \in {"none", "insert", "delete", "update",
                                            "selectChallenges", "updateChallenge",
                                            "commit"}} :
       LET r == FinalizeWrites(DB, call[p], fault) IN
       /\ Install(IF r.err THEN Rollback(DB, r.w)
                  ELSE Commit(DB, r.w, fault.at = "commit"))
       /\ call' = [call EXCEPT ![p] =
                     Returned([@ EXCEPT !.faulted = fault.at # "none"],
                              ~r.err /\ fault.at # "commit", "closed")]
  /\ UNCHANGED pre

\* ------------------------------------------------ DeactivateAuthorization

\* Statuses DeactivateAuthorization acts on.
Deactivatable(status) == status = "pending" \/ status = "valid"

DeactivateAuthorization(p, in) ==
  /\ Enter(p, in)
  /\ \E id \in AuthzIDs,
        fault \in {f \in Faults : f.at \in {"none", "begin", "select"}} :
       LET c == [Idle EXCEPT !.op = "DeactivateAuthorization", !.id = id,
                             !.faulted = fault.at # "none"]
           found == getAuthz(DB, id, fault.at = "select")
           seen == [c EXCEPT !.dbStatus = found.status, !.table = found.table]
       IN
       call' = [call EXCEPT ![p] =
                  IF fault.at = "begin" THEN Returned(c, FALSE, "none")
                  ELSE IF found.err THEN Returned(seen, FALSE, "open")
                  ELSE IF ~Deactivatable(found.status)
                  THEN Returned(seen, TRUE, "open")
                  ELSE [seen EXCEPT !.pc = "write", !.tx = "open"]]
  /\ NoWrite

\* UPDATE <table> SET status = 'deactivated' WHERE id = ?
DeactivateExecUnconditional(db, c, failed) ==
  IF failed THEN [w |-> db, err |-> TRUE, n |-> 0]
  ELSE IF c.id \in DOMAIN db[c.table]
  THEN [w |-> [db EXCEPT ![c.table][c.id].status = "deactivated"],
        err |-> FALSE, n |-> 1]
  ELSE [w |-> db, err |-> FALSE, n |-> 0]

\* UPDATE <table> SET status = 'deactivated'
\*   WHERE id = ? AND status IN ('pending', 'valid')
DeactivateExec(db, c, failed) ==
  IF failed THEN [w |-> db, err |-> TRUE, n |-> 0]
  ELSE IF c.id \in DOMAIN db[c.table] /\ Deactivatable(db[c.table][c.id].status)
  THEN [w |-> [db EXCEPT ![c.table][c.id].status = "deactivated"],
        err |-> FALSE, n |-> 1]
  ELSE [w |-> db, err |-> FALSE, n |-> 0]

DeactivateWrite(p) ==
  /\ call[p].op = "DeactivateAuthorization"
  /\ call[p].pc = "write"
  /\ \E fault \in {f \in Faults : f.at \in {"none", "update", "commit"}} :
       LET r == DeactivateExec(DB, call[p], fault.at = "update") IN
       /\ Install(IF r.err THEN Rollback(DB, r.w)
                  ELSE Commit(DB, r.w, fault.at = "commit"))
       /\ call' = [call EXCEPT ![p] =
                     Returned([@ EXCEPT !.faulted = fault.at # "none"],
                              ~r.err /\ fault.at # "commit", "closed")]
  /\ UNCHANGED pre

\* The handler has returned to its caller.
Return(p, in) ==
  /\ call[p].pc = "done"
  /\ call' = [call EXCEPT ![p] = Idle]
  /\ pre' = IF in.snap THEN DB ELSE pre
  /\ NoWrite

\* -------------------------------------------------------- issuance ledger

\* The bound on a status row's LockCol: no revocation starts beyond it.
MaxVersion == 3

\* const max = 10000 of countCertificatesByName.
max == 10000

\* var count int64 of countCertificatesByName: declared, never assigned.
count == 0

\* Certificate serials; every ledger handler touches the rows of one serial.
Serials == {1}
\* Revocation reason codes a caller passes.
Reasons == {1, 4}
\* Readings of ssa.clk.Now().
Times == {1, 2}

\* A string is a sequence of units of text.  Alphabet lists the units in byte
\* order; no unit is the beginning of another, so comparing strings unit by
\* unit is comparing them byte by byte.
Alphabet == <<",", ".", "A", "B", "COM", "EXAMPLE", "a", "b", "com", "example",
              "org", "www">>

\* Longest name list hashNames is applied to on its own.
MaxNames == 2

\* DNS names.
ExampleCom == <<"example", ".", "com">>
WwwExampleCom == <<"www", ".", "example", ".", "com">>
ExampleOrg == <<"example", ".", "org">>
AExampleCom == <<"a", ".", "example", ".", "com">>
AExampleComUpper == <<"A", ".", "EXAMPLE", ".", "COM">>
BExampleCom == <<"b", ".", "example", ".", "com">>

\* What x509.ParseCertificate makes of the DER bytes a caller passes; the
\* last one does not parse.
DERs ==
  [parses : {TRUE}, serial : Serials,
   names : {<<>>, <<WwwExampleCom>>, <<ExampleCom, WwwExampleCom>>,
            <<AExampleCom, AExampleComUpper, BExampleCom>>},
   notBefore : {1}]
  \cup {[parses |-> FALSE, serial |-> 0, names |-> <<>>, notBefore |-> 0]}

\* strings.Split(s, sep) for a separator of one unit.
RECURSIVE Split(_, _)
Split(s, sep) ==
  IF \A i \in 1..Len(s) : s[i] # sep THEN <<s>>
  ELSE LET k == CHOOSE i \in 1..Len(s) :
                  s[i] = sep /\ \A j \in 1..(i - 1) : s[j] # sep
       IN <<SubSeq(s, 1, k - 1)>> \o Split(SubSeq(s, k + 1, Len(s)), sep)

\* strings.Join(parts, sep).
RECURSIVE Join(_, _)
Join(parts, sep) ==
  IF Len(parts) = 0 THEN <<>>
  ELSE IF Len(parts) = 1 THEN parts[1]
  ELSE parts[1] \o sep \o Join(Tail(parts), sep)

\* core.ReverseName: the labels of the name in reverse order.
ReverseName(name) ==
  LET labels == Split(name, ".") IN
  Join([i \in 1..Len(labels) |-> labels[Len(labels) + 1 - i]], <<".">>)

\* strings.ToLower.
ToLower(s) ==
  [i \in 1..Len(s) |->
     CASE s[i] = "A" -> "a"
       [] s[i] = "B" -> "b"
       [] s[i] = "COM" -> "com"
       [] s[i] = "EXAMPLE" -> "example"
       [] OTHER -> s[i]]

\* Position of a unit in byte order.
Code(c) == CHOOSE i \in 1..Len(Alphabet) : Alphabet[i] = c

\* s < t as sort.Strings compares strings.
RECURSIVE Less(_, _)
Less(s, t) ==
  IF Len(t) = 0 THEN FALSE
  ELSE IF Len(s) = 0 THEN TRUE
  ELSE IF s[1] # t[1] THEN Code(s[1]) < Code(t[1])
  ELSE Less(Tail(s), Tail(t))

\* sort.Strings of the keys of a map.
RECURSIVE SortStrings(_)
SortStrings(S) ==
  IF S = {} THEN <<>>
  ELSE LET m == CHOOSE x \in S : \A y \in S : x = y \/ Less(x, y)
       IN <<m>> \o SortStrings(S \ {m})

\* core.UniqueLowerNames: the names lower-cased, each once, sorted.
UniqueLowerNames(names) ==
  SortStrings({ToLower(names[i]) : i \in 1..Len(names)})

\* sha256.Sum256, taken to be free of collisions.
Sum256(bytes) == [sha256 |-> bytes]

\* hashNames over the lower-cased names in the order passed.
hashNamesInOrder(names) ==
  Sum256(Join([i \in 1..Len(names) |-> ToLower(names[i])], <<",">>))

\* hashNames over the names as passed.
hashNamesAsPassed(names) == Sum256(Join(names, <<",">>))

\* hashNames: the digest of the unique lower-cased names joined by commas.
hashNames(names) == Sum256(Join(UniqueLowerNames(names), <<",">>))

\* The committed ledger tables as one value.
Ledger == [certificates |-> certificates,
           certificateStatus |-> certificateStatus,
           issuedNames |-> issuedNames,
           fqdnSets |-> fqdnSets]

InstallLedger(db) ==
  /\ certificates' = db.certificates
  /\ certificateStatus' = db.certificateStatus
  /\ issuedNames' = db.issuedNames
  /\ fqdnSets' = db.fqdnSets

\* The status row AddCertificate builds; gorp sets the version column of an
\* inserted row to 1.
InitialStatus == [status |-> "good", revokedDate |-> 0, revokedReason |-> 0,
                  LockCol |-> 1]

\* INSERT INTO issuedNames ... VALUES (?, ?, ?), ...: one row per DNS name;
\* with no name the statement has no VALUES list and the server rejects it.
addIssuedNames(w, cert, failed) ==
  IF failed \/ Len(cert.names) = 0 THEN [w |-> w, err |-> TRUE]
  ELSE [w |-> [w EXCEPT !.issuedNames = @ \cup
                 {[reversedName |-> ReverseName(cert.names[i]),
                   serial |-> cert.serial,
                   notBefore |-> cert.notBefore] : i \in 1..Len(cert.names)}],
        err |-> FALSE]

addFQDNSet(w, names, serial, issued, failed) ==
  IF failed THEN [w |-> w, err |-> TRUE]
  ELSE [w |-> [w EXCEPT !.fqdnSets = @ \cup
                 {[setHash |-> hashNames(names), serial |-> serial,
                   issued |-> issued]}],
        err |-> FALSE]

\* AddCertificate without the check of addIssuedNames' error.
AddCertificateWritesIgnoringNameError(db, cert, fault) ==
  LET c1 == TxInsert(db, "certificates", cert.serial,
                     [names |-> cert.names, notBefore |-> cert.notBefore],
                     fault.at = "insert") IN
  IF c1.err THEN c1
  ELSE LET c2 == TxInsert(c1.w, "certificateStatus", cert.serial, InitialStatus,
                          fault.at = "insertStatus") IN
       IF c2.err THEN c2
       ELSE LET c3 == addIssuedNames(c2.w, cert, fault.at = "insertNames") IN
            addFQDNSet(c3.w, cert.names, cert.serial, cert.notBefore,
                       fault.at = "insertSet")

\* The four inserts of AddCertificate, stopping at the first error.
AddCertificateWrites(db, cert, fault) ==
  LET c1 == TxInsert(db, "certificates", cert.serial,
                     [names |-> cert.names, notBefore |-> cert.notBefore],
                     fault.at = "insert") IN
  IF c1.err THEN c1
  ELSE LET c2 == TxInsert(c1.w, "certificateStatus", cert.serial, InitialStatus,
                          fault.at = "insertStatus") IN
       IF c2.err THEN c2
       ELSE LET c3 == addIssuedNames(c2.w, cert, fault.at = "insertNames") IN
            IF c3.err THEN c3
            ELSE addFQDNSet(c3.w, cert.names, cert.serial, cert.notBefore,
                            fault.at = "insertSet")

LedgerFaults == [at : {"none", "begin", "select", "selectStatus", "insert",
                       "insertStatus", "insertNames", "insertSet", "update",
                       "commit"}, i : {0}]

\* AddCertificate has no read phase: parse, Begin, the inserts and Commit.
AddCertificate(p) ==
  /\ call[p].pc = "idle"
  /\ \E der \in DERs,
        fault \in {f \in LedgerFaults :
                     f.at \in {"none", "begin", "insert", "insertStatus",
                               "insertNames", "insertSet", "commit"}} :
       LET c == [op |-> "AddCertificate", pc |-> "done", der |-> der,
                 result |-> "-", tx |-> "none", faulted |-> fault.at # "none"]
           r == AddCertificateWrites(Ledger, der, fault)
       IN
       IF ~der.parses \/ fault.at = "begin"
       THEN /\ call' = [call EXCEPT ![p] = [c EXCEPT !.result = "error"]]
            /\ UNCHANGED ledgerVars
       ELSE /\ InstallLedger(IF r.err THEN Rollback(Ledger, r.w)
                             ELSE Commit(Ledger, r.w, fault.at = "commit"))
            /\ call' = [call EXCEPT ![p] =
                          [c EXCEPT !.tx = "closed",
                                    !.result = IF ~r.err /\ fault.at # "commit"
                                               THEN "ok" ELSE "error"]]
  /\ UNCHANGED authzVars

\* The two lookups MarkCertificateRevoked makes before it opens its
\* transaction: GetCertificate, then GetCertificateStatus, which dereferences
\* the row it gets whether or not there is one.
RevokeLookups(db, serial, fault) ==
  IF fault.at = "select" \/ serial \notin DOMAIN db.certificates THEN "error"
  ELSE IF fault.at = "selectStatus" THEN "error"
  ELSE IF serial \notin DOMAIN db.certificateStatus THEN "panic"
  ELSE "found"

MarkCertificateRevoked(p) ==
  /\ call[p].pc = "idle"
  /\ \E serial \in Serials, reasonCode \in Reasons,
        fault \in {f \in LedgerFaults : f.at \in {"none", "select", "selectStatus"}} :
       LET found == RevokeLookups(Ledger, serial, fault)
           c == [op |-> "MarkCertificateRevoked", pc |-> "begin",
                 serial |-> serial, reasonCode |-> reasonCode, now |-> 0,
                 read |-> InitialStatus, result |-> "-", tx |-> "none",
                 faulted |-> fault.at # "none",
                 with |-> {q \in Procs \ {p} :
                             /\ call[q].op = "MarkCertificateRevoked"
                             /\ call[q].pc \in {"begin", "write"}
                             /\ call[q].serial = serial}]
       IN
       /\ serial \in DOMAIN certificateStatus
            => certificateStatus[serial].LockCol < MaxVersion
       /\ call' = [call EXCEPT ![p] =
                     IF found = "found" THEN c
                     ELSE [c EXCEPT !.pc = "done", !.result = found]]
  /\ UNCHANGED ledgerVars
  /\ UNCHANGED authzVars

\* Begin, then statusObj := tx.Get(core.CertificateStatus{}, serial).
MarkRevokedGet(p) ==
  /\ call[p].op = "MarkCertificateRevoked"
  /\ call[p].pc = "begin"
  /\ \E fault \in {f \in LedgerFaults : f.at \in {"none", "begin", "select"}} :
       call' = [call EXCEPT ![p] =
          IF fault.at = "begin"
          THEN [@ EXCEPT !.pc = "done", !.result = "error", !.faulted = TRUE]
          ELSE IF fault.at = "select"
                  \/ call[p].serial \notin DOMAIN certificateStatus
          THEN [@ EXCEPT !.pc = "done", !.result = "error", !.tx = "closed",
                         !.faulted = fault.at # "none"]
          ELSE [@ EXCEPT !.pc = "write", !.tx = "open",
                         !.read = certificateStatus[call[p].serial]]]
  /\ UNCHANGED ledgerVars
  /\ UNCHANGED authzVars

\* gorp Update that does not compare the version column.
UpdateStatusUnversioned(w, serial, row, failed) ==
  IF failed THEN [w |-> w, err |-> TRUE, n |-> 0]
  ELSE IF serial \in DOMAIN w.certificateStatus
  THEN [w |-> [w EXCEPT !.certificateStatus[serial] =
                 [row EXCEPT !.LockCol = @ + 1]],
        err |-> FALSE, n |-> 1]
  ELSE [w |-> w, err |-> FALSE, n |-> 0]

\* tx.Update(status) on a table with a version column:
\*   UPDATE certificateStatus SET ..., LockCol = v + 1
\*     WHERE serial = ? AND LockCol = v
\* where v is the LockCol of the row passed; no row updated is an
\* optimistic-lock error when v > 0.
UpdateStatus(w, serial, row, failed) ==
  IF failed THEN [w |-> w, err |-> TRUE, n |-> 0]
  ELSE IF /\ serial \in DOMAIN w.certificateStatus
          /\ w.certificateStatus[serial].LockCol = row.LockCol
  THEN [w |-> [w EXCEPT !.certificateStatus[serial] =
                 [row EXCEPT !.LockCol = @ + 1]],
        err |-> FALSE, n |-> 1]
  ELSE [w |-> w, err |-> row.LockCol > 0, n |-> 0]

\* The status row as MarkCertificateRevoked changes it.
Revoked(status, now, reasonCode) ==
  [status EXCEPT !.status = "revoked", !.revokedDate = now,
                 !.revokedReason = reasonCode]

\* The update of the row read, Rollback when it fails or updates no row,
\* Commit otherwise.
MarkRevokedUpdate(p) ==
  /\ call[p].op = "MarkCertificateRevoked"
  /\ call[p].pc = "write"
  /\ \E now \in Times,
        fault \in {f \in LedgerFaults : f.at \in {"none", "update", "commit"}} :
       LET c == call[p]
           r == UpdateStatus(Ledger, c.serial,
                             Revoked(c.read, now, c.reasonCode),
                             fault.at = "update")
           failed == r.err \/ r.n = 0
       IN
       /\ InstallLedger(IF failed THEN Rollback(Ledger, r.w)
                        ELSE Commit(Ledger, r.w, fault.at = "commit"))
       /\ call' = [call EXCEPT ![p] =
                     [c EXCEPT !.pc = "done", !.now = now, !.tx = "closed",
                               !.faulted = fault.at # "none",
                               !.result = IF ~failed /\ fault.at # "commit"
                                          THEN "ok" ELSE "error"]]
  /\ UNCHANGED authzVars

\* The handler has returned to its caller.
LedgerReturn(p) ==
  /\ call[p].pc = "done"
  /\ call' = [call EXCEPT ![p] = Idle]
  /\ UNCHANGED ledgerVars
  /\ UNCHANGED authzVars

\* --------------------------------------------------------- policy counters

\* reversedName = :reversedDomain OR
\* reversedName LIKE CONCAT(:reversedDomain, ".%")
NameMatches(reversedName, reversedDomain) ==
  \/ reversedName = reversedDomain
  \/ /\ Len(reversedDomain) < Len(reversedName)
     /\ SubSeq(reversedName, 1, Len(reversedDomain) + 1) =
          reversedDomain \o <<".">>

\* The issuedNames rows the query of countCertificatesByName matches.
MatchingRows(index, domain, earliest, latest) ==
  {r \in index : /\ NameMatches(r.reversedName, ReverseName(domain))
                 /\ r.notBefore > earliest
                 /\ r.notBefore <= latest}

\* The subsets of S that have k elements.
RECURSIVE Subsets(_, _)
Subsets(S, k) ==
  IF k = 0 THEN {{}}
  ELSE UNION {{left \cup {x} : left \in Subsets(S \ {x}, k - 1)} : x \in S}

\* What a SELECT ... LIMIT :limit can return: all the rows when there are no
\* more than limit, any limit of them otherwise.
Fetches(rows, limit) ==
  IF Cardinality(rows) <= limit THEN {rows}
  ELSE {rows \ left : left \in Subsets(rows, Cardinality(rows) - limit)}

\* The same choice told by the rows the LIMIT leaves out.
Unfetched(rows, limit) ==
  IF Cardinality(rows) <= limit THEN {{}}
  ELSE Subsets(rows, Cardinality(rows) - limit)

\* countCertificatesByName after its query returned the rows serials.
countCertificatesByName(serials, failed) ==
  IF failed THEN [n |-> -1, err |-> "error"]
  ELSE IF count > max THEN [n |-> max, err |-> "TooManyCertificatesError"]
  ELSE [n |-> Cardinality({r.serial : r \in serials}), err |-> "nil"]

CountCertificatesByName(p) ==
  /\ call[p].pc = "idle"
  /\ \E domain \in {ExampleCom, WwwExampleCom, ExampleOrg},
        earliest \in {0, 1}, latest \in {1, 2}, failed \in BOOLEAN :
       LET rows == MatchingRows(issuedNames, domain, earliest, latest) IN
       \E serials \in Fetches(rows, max + 1) :
         LET r == countCertificatesByName(serials, failed) IN
         call' = [call EXCEPT ![p] =
                    [op |-> "countCertificatesByName", pc |-> "done",
                     domain |-> domain, earliest |-> earliest,
                     latest |-> latest, matching |-> Cardinality(rows),
                     n |-> r.n, err |-> r.err,
                     result |-> IF r.err = "nil" THEN "ok" ELSE "error",
                     tx |-> "none", faulted |-> failed]]
  /\ UNCHANGED ledgerVars
  /\ UNCHANGED authzVars

\* --------------------------------------------------------- specifications

\* Rows of the legacy table that predate the migration: pending, with
\* their challenges.
LegacyChallenges == {[i \in 1..n |-> 0] : n \in 1..MaxChallenges}

InitWith(Legacy) ==
  /\ authz = <<>>
  /\ \E ids \in SUBSET AuthzIDs :
       /\ pendingAuthorizations = [id \in ids |-> Row("pending", 1, "example.com", 1)]
       /\ \E ch \in [ids -> Legacy] :
            challenges = [id \in AuthzIDs |-> IF id \in ids THEN ch[id] ELSE <<>>]
  /\ call = [p \in Procs |-> Idle]
  /\ pre = DB
  /\ certificates = <<>>
  /\ certificateStatus = <<>>
  /\ issuedNames = {}
  /\ fqdnSets = {}

Init == InitWith(LegacyChallenges)

AuthzNext(p, in) ==
  \/ NewPendingAuthorization(p, in)
  \/ NewPendingGenerate(p)
  \/ NewPendingInsert(p)
  \/ UpdatePendingAuthorization(p, in)
  \/ UpdatePendingWrite(p)
  \/ FinalizeAuthorization(p, in)
  \/ FinalizeWrite(p)
  \/ DeactivateAuthorization(p, in)
  \/ DeactivateWrite(p)
  \/ Return(p, in)

\* One caller: the handlers run one after the other.
Next == AuthzNext(1, AnyInput) /\ UNCHANGED ledgerVars

Spec == Init /\ [][Next]_vars

\* Two callers whose handlers interleave at the statement boundaries.
NextConcurrent ==
  (\E p \in Procs : AuthzNext(p, RaceInput)) /\ UNCHANGED ledgerVars

InitConcurrent == InitWith({<<0>>})

SpecConcurrent == InitConcurrent /\ [][NextConcurrent]_vars

\* The issuance ledger with two callers: no authorization, no certificate.
InitLedger ==
  /\ authz = <<>>
  /\ pendingAuthorizations = <<>>
  /\ challenges = [id \in AuthzIDs |-> <<>>]
  /\ pre = DB
  /\ call = [p \in Procs |-> Idle]
  /\ certificates = <<>>
  /\ certificateStatus = <<>>
  /\ issuedNames = {}
  /\ fqdnSets = {}

NextLedger ==
  \E p \in Procs :
    \/ AddCertificate(p)
    \/ MarkCertificateRevoked(p)
    \/ MarkRevokedGet(p)
    \/ MarkRevokedUpdate(p)
    \/ LedgerReturn(p)

SpecLedger == InitLedger /\ [][NextLedger]_vars

\* The issuedNames index of a long-running authority, read by one caller:
\* bulk certificates for www.example.com, one per serial 1..n, then some of
\* the other rows.  No more than max + 1 rows match any one query.
BulkSizes == {0, 1, max, max + 1}

BulkRows(n) ==
  {[reversedName |-> ReverseName(WwwExampleCom), serial |-> s, notBefore |-> 1] :
     s \in 1..n}

SecondNameRow == [reversedName |-> ReverseName(ExampleCom), serial |-> 1,
                  notBefore |-> 1]

OtherRows ==
  {SecondNameRow,
   [reversedName |-> ReverseName(ExampleOrg), serial |-> 2, notBefore |-> 1],
   [reversedName |-> ReverseName(WwwExampleCom), serial |-> 1, notBefore |-> 3]}

InitCounters ==
  /\ authz = <<>>
  /\ pendingAuthorizations = <<>>
  /\ challenges = [id \in AuthzIDs |-> <<>>]
  /\ pre = DB
  /\ call = [p \in Procs |-> Idle]
  /\ certificates = <<>>
  /\ certificateStatus = <<>>
  /\ fqdnSets = {}
  /\ \E n \in BulkSizes, other \in SUBSET OtherRows :
       /\ n = max + 1 => SecondNameRow \notin other
       /\ issuedNames = BulkRows(n) \cup other

NextCounters ==
  \/ CountCertificatesByName(1)
  \/ LedgerReturn(1)

SpecCounters == InitCounters /\ [][NextCounters]_vars

\* ------------------------------------------------- authorization claims

\* The status stored for id in the tables db ("absent": in neither table).
StatusIn(db, id) ==
  IF id \in DOMAIN db.authz THEN db.authz[id].status
  ELSE IF id \in DOMAIN db.pendingAuthorizations
  THEN db.pendingAuthorizations[id].status
  ELSE "absent"

StoredStatus(id) == StatusIn(DB, id)

\* The row stored for id, from whichever table holds it.
StoredRow(id) ==
  IF id \in DOMAIN authz THEN authz[id] ELSE pendingAuthorizations[id]

AllowedTransitions ==
  {<<"pending", "valid">>, <<"pending", "invalid">>,
   <<"pending", "deactivated">>, <<"valid", "deactivated">>}

\* C1: every change of an authorization's stored status is pending->valid,
\* pending->invalid, pending->deactivated or valid->deactivated (a new
\* authorization starts as pending); invalid and deactivated are never left.
C1_StatusTransitions ==
  [][\A id \in AuthzIDs :
       StoredStatus(id)' # StoredStatus(id) =>
         \/ StoredStatus(id) = "absent" /\ StoredStatus(id)' = "pending"
         \/ <<StoredStatus(id), StoredStatus(id)'>> \in AllowedTransitions]_vars

\* C2: a FinalizeAuthorization or DeactivateAuthorization that read the
\* authorization as pending and reaches its write phase after another
\* caller has changed the stored status changes no row.
C2_LoserWritesNothing ==
  [][\A p \in Procs :
       ( /\ call[p].pc = "write"
         /\ call'[p].pc = "done"
         /\ call[p].op \in {"FinalizeAuthorization", "DeactivateAuthorization"}
         /\ call[p].dbStatus = "pending"
         /\ StoredStatus(call[p].id) # "pending" )
       => UNCHANGED <<authz, pendingAuthorizations, challenges>>]_vars

\* C3: a FinalizeAuthorization of a record whose stored status is not
\* pending, or to a target status that is pending, has returned an error and
\* the tables are as they were before the call.
C3_FinalizeRefusal ==
  \A p \in Procs :
    ( /\ call[p].pc = "done"
      /\ call[p].op = "FinalizeAuthorization"
      /\ \/ StatusIn(pre, call[p].id) \notin {"absent", "pending"}
         \/ call[p].status = "pending" )
    => call[p].result = "error" /\ DB = pre

\* A finalize to valid of an authorization that was no longer pending has
\* returned.
C3_Witness ==
  \E p \in Procs :
    /\ call[p].pc = "done"
    /\ call[p].op = "FinalizeAuthorization"
    /\ call[p].status = "valid"
    /\ ~call[p].faulted
    /\ StatusIn(pre, call[p].id) \in {"valid", "invalid", "deactivated"}
    /\ call[p].challs = pre.challenges[call[p].id]

\* C4: an UpdatePendingAuthorization whose challenge list differs in length
\* from the stored challenge rows has returned an error, and the
\* authorization rows and the challenge rows are as before the call.
C4_ChallengeCountMismatch ==
  \A p \in Procs :
    ( /\ call[p].pc = "done"
      /\ call[p].op = "UpdatePendingAuthorization"
      /\ StatusIn(pre, call[p].id) # "absent"
      /\ Len(call[p].challs) # Len(pre.challenges[call[p].id]) )
    => call[p].result = "error" /\ DB = pre

\* The update got as far as rewriting the authz row with another expiry
\* before the challenge count was found to differ.
C4_Witness ==
  \E p \in Procs :
    /\ call[p].pc = "done"
    /\ call[p].op = "UpdatePendingAuthorization"
    /\ call[p].status = "pending"
    /\ call[p].dbStatus = "pending"
    /\ call[p].table = "authz"
    /\ ~call[p].faulted
    /\ call[p].expires # pre.authz[call[p].id].expires
    /\ Len(call[p].challs) # Len(pre.challenges[call[p].id])
    /\ call[p].result = "error"

\* C5: an UpdatePendingAuthorization with a status that is not pending, or
\* of a record whose stored status is not pending, has returned an error and
\* written nothing.
C5_UpdateRefusal ==
  \A p \in Procs :
    ( /\ call[p].pc = "done"
      /\ call[p].op = "UpdatePendingAuthorization"
      /\ \/ call[p].status # "pending"
         \/ StatusIn(pre, call[p].id) \notin {"absent", "pending"} )
    => call[p].result = "error" /\ DB = pre

\* A pending update of a valid authorization, with a matching challenge
\* list, has been refused.
C5_Witness ==
  \E p \in Procs :
    /\ call[p].pc = "done"
    /\ call[p].op = "UpdatePendingAuthorization"
    /\ call[p].status = "pending"
    /\ ~call[p].faulted
    /\ StatusIn(pre, call[p].id) = "valid"
    /\ Len(call[p].challs) = Len(pre.challenges[call[p].id])
    /\ call[p].result = "error"

\* C6: a pending update of a pending authorization with a matching challenge
\* count, with no storage error, succeeds and rewrites the row and the
\* challenges, in whichever table the record lives.
C6_UpdateInEitherLocation ==
  \A p \in Procs :
    ( /\ call[p].pc = "done"
      /\ call[p].op = "UpdatePendingAuthorization"
      /\ ~call[p].faulted
      /\ call[p].status = "pending"
      /\ StatusIn(pre, call[p].id) = "pending"
      /\ Len(call[p].challs) = Len(pre.challenges[call[p].id]) )
    => /\ call[p].result = "ok"
       /\ StoredRow(call[p].id) = Row(call[p].status, call[p].expires,
                  call[p].identifier, call[p].registrationID)
       /\ challenges[call[p].id] = call[p].challs

\* C7: no authorization ID is in both tables; a successful finalize of a
\* pending legacy record to a final status leaves it in authz with that
\* status and not in pendingAuthorizations; a failed one leaves the tables
\* as they were, the record pending in pendingAuthorizations only.
C7_AtomicMove ==
  /\ \A id \in AuthzIDs :
       ~(id \in DOMAIN authz /\ id \in DOMAIN pendingAuthorizations)
  /\ \A p \in Procs :
       ( /\ call[p].pc = "done"
         /\ call[p].op = "FinalizeAuthorization"
         /\ call[p].table = "pendingAuthorizations"
         /\ call[p].dbStatus = "pending"
         /\ call[p].status # "pending" )
       => IF call[p].result = "ok"
          THEN /\ call[p].id \in DOMAIN authz
               /\ authz[call[p].id] = Row(call[p].status, call[p].expires,
                  call[p].identifier, call[p].registrationID)
               /\ call[p].id \notin DOMAIN pendingAuthorizations
          ELSE /\ DB = pre
               /\ call[p].id \in DOMAIN pendingAuthorizations
               /\ pendingAuthorizations[call[p].id].status = "pending"
               /\ call[p].id \notin DOMAIN authz

\* A legacy record has been finalized to valid.
C7_Witness ==
  \E p \in Procs :
    /\ call[p].pc = "done"
    /\ call[p].op = "FinalizeAuthorization"
    /\ call[p].table = "pendingAuthorizations"
    /\ call[p].status = "valid"
    /\ call[p].result = "ok"
    /\ call[p].id \in DOMAIN pre.pendingAuthorizations

\* A legacy finalize failed after its insert into authz.
C7_WitnessFailure ==
  \E p \in Procs :
    /\ call[p].pc = "done"
    /\ call[p].op = "FinalizeAuthorization"
    /\ call[p].table = "pendingAuthorizations"
    /\ call[p].dbStatus = "pending"
    /\ call[p].status = "valid"
    /\ call[p].faulted
    /\ call[p].result = "error"

\* ------------------------------------------------------- ledger claims

\* The issuedNames rows AddCertificate writes for a certificates row.
NameRowsOf(s) ==
  {[reversedName |-> ReverseName(certificates[s].names[i]), serial |-> s,
    notBefore |-> certificates[s].notBefore] :
     i \in 1..Len(certificates[s].names)}

\* C8: in every committed state a serial has its certificates row, its
\* certificateStatus row, its fqdnSets row and the issuedNames rows of its
\* names, or none of them.
C8_LedgerRowsTogether ==
  \A s \in Serials :
    IF s \in DOMAIN certificates
    THEN /\ s \in DOMAIN certificateStatus
         /\ {r \in fqdnSets : r.serial = s} =
              {[setHash |-> hashNames(certificates[s].names), serial |-> s,
                issued |-> certificates[s].notBefore]}
         /\ {r \in issuedNames : r.serial = s} = NameRowsOf(s)
    ELSE /\ s \notin DOMAIN certificateStatus
         /\ {r \in fqdnSets : r.serial = s} = {}
         /\ {r \in issuedNames : r.serial = s} = {}

\* An AddCertificate whose inserts of the certificate and of its status went
\* through has failed at the issuedNames insert and returned.
C8_Witness ==
  \E p \in Procs :
    /\ call[p].op = "AddCertificate"
    /\ call[p].pc = "done"
    /\ call[p].der.parses
    /\ Len(call[p].der.names) = 0
    /\ ~call[p].faulted
    /\ call[p].tx = "closed"
    /\ call[p].result = "error"
    /\ call[p].der.serial \notin DOMAIN certificates

\* Two MarkCertificateRevoked calls on one serial that both opened their
\* transaction, met no storage error and have returned.
BothRevoked(p, q) ==
  /\ p # q
  /\ call[p].op = "MarkCertificateRevoked"
  /\ call[q].op = "MarkCertificateRevoked"
  /\ call[p].pc = "done"
  /\ call[q].pc = "done"
  /\ call[p].serial = call[q].serial
  /\ call[p].tx = "closed"
  /\ call[q].tx = "closed"
  /\ ~call[p].faulted
  /\ ~call[q].faulted

\* The status row is the one caller p wrote.
WrittenBy(p) ==
  certificateStatus[call[p].serial] =
    [status |-> "revoked", revokedDate |-> call[p].now,
     revokedReason |-> call[p].reasonCode,
     LockCol |-> call[p].read.LockCol + 1]

\* C9 as claimed: of two MarkCertificateRevoked calls on one serial that ran
\* at the same time, exactly one succeeded, and the status row is the one it
\* wrote.
C9_ExactlyOneSucceeds ==
  \A p, q \in Procs :
    (BothRevoked(p, q) /\ (p \in call[q].with \/ q \in call[p].with))
    => \/ call[p].result = "ok" /\ call[q].result = "error" /\ WrittenBy(p)
       \/ call[q].result = "ok" /\ call[p].result = "error" /\ WrittenBy(q)

\* C9 as amended: of two MarkCertificateRevoked calls on one serial that read
\* the same version of the status row, exactly one succeeded, and the status
\* row is the one it wrote.
C9_OneWinnerPerVersion ==
  \A p, q \in Procs :
    (BothRevoked(p, q) /\ call[p].read.LockCol = call[q].read.LockCol)
    => \/ call[p].result = "ok" /\ call[q].result = "error" /\ WrittenBy(p)
       \/ call[q].result = "ok" /\ call[p].result = "error" /\ WrittenBy(q)

\* Two calls with different reasons read the same version; one has won.
C9_Witness ==
  \E p, q \in Procs :
    /\ BothRevoked(p, q)
    /\ call[p].read.LockCol = call[q].read.LockCol
    /\ call[p].reasonCode # call[q].reasonCode
    /\ call[p].result = "ok"
    /\ call[q].result = "error"

\* C10: countCertificatesByName returns no count above max, and when more
\* than max rows match it returns max with a TooManyCertificatesError.
C10_CountCapped ==
  \A p \in Procs :
    ( /\ call[p].op = "countCertificatesByName"
      /\ call[p].pc = "done"
      /\ ~call[p].faulted )
    => /\ call[p].n <= max
       /\ call[p].matching > max =>
            call[p].n = max /\ call[p].err = "TooManyCertificatesError"

\* ------------------------------------------------------ name-set digest

\* Names hashNames is applied to on its own: the empty name, names that
\* differ in case only, and a name that holds the separator.
NamePool == {<<>>, <<"a">>, <<"A">>, <<"b">>, <<"B">>, <<"a", ",", "b">>}

NameLists == UNION {[1..n -> NamePool] : n \in 0..MaxNames}

\* Two name lists handed to hashNames.
InitNames ==
  /\ authz = <<>>
  /\ pendingAuthorizations = <<>>
  /\ challenges = [id \in AuthzIDs |-> <<>>]
  /\ pre = DB
  /\ certificates = <<>>
  /\ certificateStatus = <<>>
  /\ issuedNames = {}
  /\ fqdnSets = {}
  /\ \E l1, l2 \in NameLists :
       call = [p \in Procs |->
                 IF p = 1
                 THEN [op |-> "hashNames", pc |-> "begin", names1 |-> l1,
                       names2 |-> l2, digest1 |-> Sum256(<<>>),
                       digest2 |-> Sum256(<<>>), result |-> "-",
                       tx |-> "none", faulted |-> FALSE]
                 ELSE Idle]

HashNames(p) ==
  /\ call[p].op = "hashNames"
  /\ call[p].pc = "begin"
  /\ call' = [call EXCEPT ![p] =
                [@ EXCEPT !.pc = "done", !.result = "ok",
                          !.digest1 = hashNames(call[p].names1),
                          !.digest2 = hashNames(call[p].names2)]]
  /\ UNCHANGED ledgerVars
  /\ UNCHANGED authzVars

NextNames ==
  \/ HashNames(1)
  \/ LedgerReturn(1)

SpecNames == InitNames /\ [][NextNames]_vars

\* The set a name list stands for: its names lower-cased.
NormalSet(names) == {ToLower(names[i]) : i \in 1..Len(names)}

\* No name of the list is empty or holds the separator.
PlainNames(names) ==
  \A i \in 1..Len(names) :
    Len(names[i]) > 0 /\ \A k \in 1..Len(names[i]) : names[i][k] # ","

\* C11 as claimed: two name lists with the same set of lower-cased names
\* have the same digest, and two name lists with different sets are hashed
\* over different comma-joined strings.
C11_DigestPerSet ==
  \A p \in Procs :
    (call[p].op = "hashNames" /\ call[p].pc = "done")
    => ( NormalSet(call[p].names1) = NormalSet(call[p].names2)
         <=> call[p].digest1.sha256 = call[p].digest2.sha256 )

\* C11 as amended: two name lists with the same set of lower-cased names
\* have the same digest; two lists of non-empty names without a comma with
\* different sets are hashed over different comma-joined strings.
C11_DigestPerPlainSet ==
  \A p \in Procs :
    (call[p].op = "hashNames" /\ call[p].pc = "done")
    => /\ NormalSet(call[p].names1) = NormalSet(call[p].names2)
            => call[p].digest1 = call[p].digest2
       /\ ( /\ PlainNames(call[p].names1)
            /\ PlainNames(call[p].names2)
            /\ NormalSet(call[p].names1) # NormalSet(call[p].names2) )
            => call[p].digest1.sha256 # call[p].digest2.sha256

\* Two lists in different order and case have been given one digest.
C11_Witness ==
  \E p \in Procs :
    /\ call[p].op = "hashNames"
    /\ call[p].pc = "done"
    /\ Len(call[p].names1) = 2
    /\ Len(call[p].names2) = 2
    /\ call[p].names1[1] # call[p].names1[2]
    /\ ToLower(call[p].names1[1]) = ToLower(call[p].names2[2])
    /\ call[p].names1[1] # call[p].names2[2]
    /\ PlainNames(call[p].names1)
    /\ NormalSet(call[p].names1) = NormalSet(call[p].names2)
    /\ Cardinality(NormalSet(call[p].names1)) = 2
    /\ call[p].digest1 = call[p].digest2

\* --------------------------------------------------------- range codec

\* An IP address is a sequence of bytes, 4 or 16 of them; nil is <<>>.
v4InV6Prefix == <<0, 0, 0, 0, 0, 0, 0, 0, 0, 0, 255, 255>>

\* net.ParseIP("ffff:ffff:ffff:ffff:ffff:ffff:ffff:ffff")
MaxIP == [i \in 1..16 |-> 255]

\* net.IP.To16
To16(ip) ==
  IF Len(ip) = 4 THEN v4InV6Prefix \o ip
  ELSE IF Len(ip) = 16 THEN ip
  ELSE <<>>

\* net.IP.To4
To4(ip) ==
  IF Len(ip) = 4 THEN ip
  ELSE IF Len(ip) = 16 /\ SubSeq(ip, 1, 12) = v4InV6Prefix
  THEN SubSeq(ip, 13, 16)
  ELSE <<>>

RECURSIVE Pow2(_)
Pow2(n) == IF n = 0 THEN 1 ELSE 2 * Pow2(n - 1)

\* a & b on bytes.
RECURSIVE BitAnd(_, _)
BitAnd(a, b) ==
  IF a = 0 \/ b = 0 THEN 0
  ELSE (a % 2) * (b % 2) + 2 * BitAnd(a \div 2, b \div 2)

\* net.CIDRMask(ones, bits): ones 1-bits, then 0-bits.
CIDRMask(ones, bits) ==
  [i \in 1..(bits \div 8) |->
     LET n == ones - 8 * (i - 1) IN
     IF n >= 8 THEN 255
     ELSE IF n <= 0 THEN 0
     ELSE 256 - Pow2(8 - n)]

\* net.IP.Mask for an address and a mask of one length.
Mask(ip, mask) ==
  IF Len(ip) # Len(mask) THEN <<>>
  ELSE [i \in 1..Len(ip) |-> BitAnd(ip[i], mask[i])]

\* big.Int addition of v at byte pos of a big-endian number: the carry
\* runs to the left and lengthens the number when it leaves it.
RECURSIVE AddAt(_, _, _)
AddAt(bytes, pos, v) ==
  IF pos < 1 THEN <<v>> \o [i \in 1..(-pos) |-> 0] \o bytes
  ELSE IF bytes[pos] + v < 256 THEN [bytes EXCEPT ![pos] = @ + v]
  ELSE AddAt([bytes EXCEPT ![pos] = bytes[pos] + v - 256], pos - 1, 1)

\* big.Int.Bytes: big-endian, without leading zero bytes.
RECURSIVE Bytes(_)
Bytes(n) ==
  IF Len(n) > 0 /\ n[1] = 0 THEN Bytes(Tail(n)) ELSE n

\* incrementIP that keeps the low 16 bytes of the sum.
incrementIPWrapping(ip, index) ==
  LET k == 128 - index
      sum == AddAt(ip, Len(ip) - (k \div 8), Pow2(k % 8))
      resultBytes == Bytes(sum)
  IN IF Len(resultBytes) > 16
     THEN SubSeq(resultBytes, Len(resultBytes) - 15, Len(resultBytes))
     ELSE [i \in 1..(16 - Len(resultBytes)) |-> 0] \o resultBytes

incrementIP(ip, index) ==
  LET k == 128 - index
      sum == AddAt(ip, Len(ip) - (k \div 8), Pow2(k % 8))
      resultBytes == Bytes(sum)
  IN IF Len(resultBytes) > 16 THEN MaxIP
     ELSE [i \in 1..(16 - Len(resultBytes)) |-> 0] \o resultBytes

ipRange(ip) ==
  LET ip16 == To16(ip)
      maskLength == IF To4(ip16) # <<>> THEN 128 ELSE 48
      mask == CIDRMask(maskLength, 128)
      begin == Mask(ip16, mask)
  IN [begin |-> begin, end |-> incrementIP(begin, maskLength)]

\* a < b as the database compares two byte strings of one length.
RECURSIVE BytesLess(_, _)
BytesLess(a, b) ==
  IF Len(a) = 0 \/ Len(b) = 0 THEN FALSE
  ELSE IF a[1] # b[1] THEN a[1] < b[1]
  ELSE BytesLess(Tail(a), Tail(b))

\* :beginIP <= initialIP AND initialIP < :endIP
InRange(initialIP, range) ==
  ~BytesLess(initialIP, range.begin) /\ BytesLess(initialIP, range.end)

\* Leading 48 bits and trailing 80 bits of the addresses looked at: the
\* bottom and the top of the address space, their neighbours, a
\* documentation network and the IPv4-mapped addresses.
Prefixes ==
  {<<0, 0, 0, 0, 0, 0>>, <<0, 0, 0, 0, 0, 1>>, <<32, 1, 13, 184, 0, 1>>,
   <<255, 255, 255, 255, 255, 254>>, <<255, 255, 255, 255, 255, 255>>}

Suffixes ==
  {<<0, 0, 0, 0, 0, 0, 0, 0, 0, 0>>, <<0, 0, 0, 0, 0, 0, 0, 0, 0, 1>>,
   <<0, 0, 0, 0, 0, 0, 0, 0, 0, 2>>,
   <<0, 0, 0, 0, 255, 255, 1, 2, 3, 4>>, <<0, 0, 0, 0, 255, 255, 1, 2, 3, 5>>,
   <<0, 0, 0, 0, 255, 255, 1, 2, 3, 255>>, <<0, 0, 0, 0, 255, 255, 1, 2, 4, 0>>,
   <<0, 0, 0, 0, 255, 255, 255, 255, 255, 255>>, <<0, 0, 0, 1, 0, 0, 0, 0, 0, 0>>,
   <<255, 255, 255, 255, 255, 255, 255, 255, 255, 254>>,
   <<255, 255, 255, 255, 255, 255, 255, 255, 255, 255>>}

Addresses == {p \o t : p \in Prefixes, t \in Suffixes}

\* The addresses a caller passes: the 16-byte ones and 4-byte IPv4 ones.
CallerIPs ==
  Addresses \cup {<<1, 2, 3, 4>>, <<1, 2, 3, 255>>, <<255, 255, 255, 255>>}

\* An address handed to ipRange, and a stored initialIP to compare with
\* the range.
InitRange ==
  /\ authz = <<>>
  /\ pendingAuthorizations = <<>>
  /\ challenges = [id \in AuthzIDs |-> <<>>]
  /\ pre = DB
  /\ certificates = <<>>
  /\ certificateStatus = <<>>
  /\ issuedNames = {}
  /\ fqdnSets = {}
  /\ \E ip \in CallerIPs, initialIP \in Addresses :
       call = [p \in Procs |->
                 IF p = 1
                 THEN [op |-> "ipRange", pc |-> "begin", ip |-> ip,
                       initialIP |-> initialIP,
                       range |-> [begin |-> <<>>, end |-> <<>>],
                       result |-> "-", tx |-> "none", faulted |-> FALSE]
                 ELSE Idle]

IpRange(p) ==
  /\ call[p].op = "ipRange"
  /\ call[p].pc = "begin"
  /\ call' = [call EXCEPT ![p] =
                [@ EXCEPT !.pc = "done", !.result = "ok",
                          !.range = ipRange(call[p].ip)]]
  /\ UNCHANGED ledgerVars
  /\ UNCHANGED authzVars

NextRange ==
  \/ IpRange(1)
  \/ LedgerReturn(1)

SpecRange == InitRange /\ [][NextRange]_vars

IsIPv4(ip) == To4(ip) # <<>>

\* x is in the /48 network of ip.
SameSlash48(x, ip) == SubSeq(x, 1, 6) = SubSeq(To16(ip), 1, 6)

\* C12 as claimed: for an IPv4 address the range holds that address and no
\* other; for an IPv6 address it holds the addresses of its /48 network and
\* no other; the end of the topmost network is the maximum address.
C12_RangeIsNetwork ==
  \A p \in Procs :
    (call[p].op = "ipRange" /\ call[p].pc = "done")
    => /\ call[p].range.begin = Mask(To16(call[p].ip),
                                     CIDRMask(IF IsIPv4(call[p].ip)
                                              THEN 128 ELSE 48, 128))
       /\ InRange(call[p].initialIP, call[p].range)
            <=> IF IsIPv4(call[p].ip)
                THEN call[p].initialIP = To16(call[p].ip)
                ELSE SameSlash48(call[p].initialIP, call[p].ip)
       /\ SubSeq(To16(call[p].ip), 1, 6) = SubSeq(MaxIP, 1, 6)
            => call[p].range.end = MaxIP

\* C12 as amended: as claimed for every address but the maximum address,
\* which is in no range.
C12_RangeIsNetworkBelowMax ==
  \A p \in Procs :
    (call[p].op = "ipRange" /\ call[p].pc = "done")
    => /\ call[p].range.begin = Mask(To16(call[p].ip),
                                     CIDRMask(IF IsIPv4(call[p].ip)
                                              THEN 128 ELSE 48, 128))
       /\ InRange(call[p].initialIP, call[p].range)
            <=> /\ call[p].initialIP # MaxIP
                /\ IF IsIPv4(call[p].ip)
                   THEN call[p].initialIP = To16(call[p].ip)
                   ELSE SameSlash48(call[p].initialIP, call[p].ip)
       /\ SubSeq(To16(call[p].ip), 1, 6) = SubSeq(MaxIP, 1, 6)
            => call[p].range.end = MaxIP

\* An address of the topmost /48 network other than the queried one is in
\* the clamped range.
C12_Witness ==
  \E p \in Procs :
    /\ call[p].op = "ipRange"
    /\ call[p].pc = "done"
    /\ ~IsIPv4(call[p].ip)
    /\ SubSeq(call[p].ip, 1, 6) = SubSeq(MaxIP, 1, 6)
    /\ call[p].initialIP # call[p].ip
    /\ call[p].range.end = MaxIP
    /\ InRange(call[p].initialIP, call[p].range)

\* ------------------------------------------- RevokeAuthorizationsByDomain

\* Most IDs one getAuthorizationIDsByDomain query returns.
BatchMax == 1

\* Identifiers authorizations are for.
Identifiers == {"example.com", "example.org"}

\* The authorizations RevokeAuthorizationsByDomain is after: for the
\* identifier, pending or valid, not expired at now.
Revocable(db, table, identifier, now) ==
  {id \in DOMAIN db[table] :
     /\ db[table][id].identifier = identifier
     /\ db[table][id].status \in {"pending", "valid"}
     /\ db[table][id].expires > now}

\* getAuthorizationIDsByDomain: the batches of IDs one query can return.
getAuthorizationIDsByDomain(db, table, identifier, now) ==
  Fetches(Revocable(db, table, identifier, now), BatchMax)

\* revokeAuthorizations: the rows of the batch are given a status that is
\* neither pending nor valid; n is the number of rows changed.
revokeAuthorizations(db, table, ids) ==
  LET hit == {id \in ids : id \in DOMAIN db[table]
                           /\ db[table][id].status # "revoked"} IN
  [w |-> [db EXCEPT ![table] =
            [id \in DOMAIN @ |->
               IF id \in hit THEN [@[id] EXCEPT !.status = "revoked"]
               ELSE @[id]]],
   n |-> Cardinality(hit)]

\* json.Marshal(ident), results := {0, 0}, now := ssa.clk.Now().
RevokeAuthorizationsByDomain(p) ==
  /\ call[p].pc = "idle"
  /\ \E identifier \in Identifiers :
       call' = [call EXCEPT ![p] =
                  [op |-> "RevokeAuthorizationsByDomain", pc |-> "fetch",
                   identifier |-> identifier, now |-> 1, tableIx |-> 1,
                   batch |-> {}, results |-> <<0, 0>>, result |-> "-",
                   tx |-> "none", faulted |-> FALSE]]
  /\ pre' = DB
  /\ NoWrite
  /\ UNCHANGED ledgerVars

\* After getAuthorizationIDsByDomain, with the second table left out.
RevokeFetchedOneTable(c, ids, failed) ==
  IF failed THEN [c EXCEPT !.pc = "done", !.result = "error", !.faulted = TRUE]
  ELSE IF ids = {} THEN [c EXCEPT !.pc = "done", !.result = "ok"]
  ELSE [c EXCEPT !.pc = "revoke", !.batch = ids]

\* The caller's frame after getAuthorizationIDsByDomain returned ids: an
\* empty batch ends the loop on this table, and the call after the last.
RevokeFetched(c, ids, failed) ==
  IF failed THEN [c EXCEPT !.pc = "done", !.result = "error", !.faulted = TRUE]
  ELSE IF ids = {}
  THEN IF c.tableIx = Len(authorizationTables)
       THEN [c EXCEPT !.pc = "done", !.result = "ok"]
       ELSE [c EXCEPT !.tableIx = @ + 1]
  ELSE [c EXCEPT !.pc = "revoke", !.batch = ids]

RevokeFetch(p) ==
  /\ call[p].op = "RevokeAuthorizationsByDomain"
  /\ call[p].pc = "fetch"
  /\ \E failed \in BOOLEAN,
        ids \in getAuthorizationIDsByDomain(
                  DB, authorizationTables[call[p].tableIx],
                  call[p].identifier, call[p].now) :
       call' = [call EXCEPT ![p] = RevokeFetched(@, ids, failed)]
  /\ NoWrite
  /\ UNCHANGED pre
  /\ UNCHANGED ledgerVars

\* After revokeAuthorizations, without the comparison of numRevoked with
\* the number fetched.
RevokeCountedIgnoringShortfall(c, numRevoked, failed) ==
  LET table == authorizationTables[c.tableIx]
      results == IF table = "pendingAuthorizations"
                 THEN <<c.results[1] + numRevoked, c.results[2]>>
                 ELSE <<c.results[1], c.results[2] + numRevoked>>
  IN IF failed
     THEN [c EXCEPT !.pc = "done", !.result = "error", !.faulted = TRUE]
     ELSE [c EXCEPT !.pc = "fetch", !.results = results, !.batch = {}]

\* The caller's frame after revokeAuthorizations changed numRevoked rows.
RevokeCounted(c, numRevoked, failed) ==
  LET table == authorizationTables[c.tableIx]
      results == IF table = "pendingAuthorizations"
                 THEN <<c.results[1] + numRevoked, c.results[2]>>
                 ELSE <<c.results[1], c.results[2] + numRevoked>>
  IN IF failed
     THEN [c EXCEPT !.pc = "done", !.result = "error", !.faulted = TRUE]
     ELSE IF table \notin {"pendingAuthorizations", "authz"}
     THEN [c EXCEPT !.pc = "done", !.result = "error"]
     ELSE IF numRevoked < Cardinality(c.batch)
     THEN [c EXCEPT !.pc = "done", !.result = "error", !.results = results]
     ELSE [c EXCEPT !.pc = "fetch", !.results = results, !.batch = {}]

RevokeBatch(p) ==
  /\ call[p].op = "RevokeAuthorizationsByDomain"
  /\ call[p].pc = "revoke"
  /\ \E failed \in BOOLEAN :
       LET r == revokeAuthorizations(DB, authorizationTables[call[p].tableIx],
                                     call[p].batch) IN
       /\ Install(IF failed THEN DB ELSE r.w)
       /\ call' = [call EXCEPT ![p] = RevokeCounted(@, r.n, failed)]
  /\ UNCHANGED pre
  /\ UNCHANGED ledgerVars

\* The tables of a running authority: each ID absent, in the legacy table
\* (pending or deactivated) or in authz, for either identifier, expired at
\* time 1 or not.
StoredRows(statuses) ==
  {Row(st, e, ident, 1) : st \in statuses, e \in Expiries, ident \in Identifiers}

InitRevoke ==
  /\ \E legacy \in SUBSET AuthzIDs :
       /\ pendingAuthorizations \in
            [legacy -> StoredRows({"pending", "deactivated"})]
       /\ \E unified \in SUBSET (AuthzIDs \ legacy) :
            authz \in [unified -> StoredRows(Statuses)]
  /\ challenges = [id \in AuthzIDs |-> <<>>]
  /\ pre = DB
  /\ call = [p \in Procs |-> Idle]
  /\ certificates = <<>>
  /\ certificateStatus = <<>>
  /\ issuedNames = {}
  /\ fqdnSets = {}

RevokeReturn(p) ==
  /\ call[p].op = "RevokeAuthorizationsByDomain"
  /\ call[p].pc = "done"
  /\ call' = [call EXCEPT ![p] = Idle]
  /\ NoWrite
  /\ UNCHANGED pre
  /\ UNCHANGED ledgerVars

NextRevoke ==
  \/ RevokeAuthorizationsByDomain(1)
  \/ RevokeFetch(1)
  \/ RevokeBatch(1)
  \/ RevokeReturn(1)

SpecRevoke == InitRevoke /\ [][NextRevoke]_vars

\* Pending or valid unexpired authorizations for the identifier, in both
\* tables.
AllRevocable(db, identifier, now) ==
  Revocable(db, "pendingAuthorizations", identifier, now)
    \cup Revocable(db, "authz", identifier, now)

\* C13: when RevokeAuthorizationsByDomain has returned without error, no
\* pending or valid unexpired authorization for the identifier is left in
\* either table, and the two counts sum to the number there was before the
\* call: 0 and 0 when there was none.
C13_RevokesAll ==
  \A p \in Procs :
    ( /\ call[p].op = "RevokeAuthorizationsByDomain"
      /\ call[p].pc = "done"
      /\ call[p].result = "ok" )
    => /\ AllRevocable(DB, call[p].identifier, call[p].now) = {}
       /\ call[p].results[1] + call[p].results[2] =
            Cardinality(AllRevocable(pre, call[p].identifier, call[p].now))
       /\ AllRevocable(pre, call[p].identifier, call[p].now) = {}
            => call[p].results = <<0, 0>>

\* A call has revoked one pending and one valid authorization.
C13_Witness ==
  \E p \in Procs :
    /\ call[p].op = "RevokeAuthorizationsByDomain"
    /\ call[p].pc = "done"
    /\ call[p].result = "ok"
    /\ call[p].results[1] + call[p].results[2] = 2
    /\ \E a, b \in AllRevocable(pre, call[p].identifier, call[p].now) :
         /\ StatusIn(pre, a) = "pending"
         /\ StatusIn(pre, b) = "valid"
         /\ StatusIn(DB, a) = "revoked"
         /\ StatusIn(DB, b) = "revoked"

\* A repeated call has returned 0 and 0.
C13_WitnessRepeated ==
  \E p \in Procs :
    /\ call[p].op = "RevokeAuthorizationsByDomain"
    /\ call[p].pc = "done"
    /\ call[p].result = "ok"
    /\ call[p].results = <<0, 0>>
    /\ \E id \in AuthzIDs :
         /\ StatusIn(pre, id) = "revoked"
         /\ StoredRow(id).identifier = call[p].identifier

\* ------------------------------------------------- further authorization claims

\* C14: no ID is stored in both tables, and a NewPendingAuthorization that
\* met no storage error has stored its authorization: a call whose ID was
\* taken by a concurrent call between its check and its insert has gone on
\* to another ID.
C14_RetryOnCollision ==
  /\ \A id \in AuthzIDs :
       ~(id \in DOMAIN authz /\ id \in DOMAIN pendingAuthorizations)
  /\ \A p \in Procs :
       ( /\ call[p].op = "NewPendingAuthorization"
         /\ call[p].pc = "done"
         /\ ~call[p].faulted )
       => /\ call[p].result = "ok"
          /\ call[p].id \in DOMAIN authz

\* -------------------------------------------------- GetValidAuthorizations

\* The rows the query selects: of the registration, for one of the names,
\* valid, expiring after now.
ValidFor(db, registrationID, names, now) ==
  {id \in DOMAIN db.authz :
     /\ db.authz[id].registrationID = registrationID
     /\ db.authz[id].expires > now
     /\ db.authz[id].identifier \in names
     /\ db.authz[id].status = "valid"}

\* byName filled from the rows in any order, whatever their expiry.
AnyByName(db, auths) ==
  LET found == {db.authz[id].identifier : id \in auths} IN
  {f \in [found -> auths] : \A n \in found : db.authz[f[n]].identifier = n}

\* byName after the loop over the rows, for each order the rows can come
\* in: per name a row that none of the name's rows expires after.
LatestByName(db, auths) ==
  LET found == {db.authz[id].identifier : id \in auths} IN
  {f \in [found -> auths] :
     \A n \in found :
       /\ db.authz[f[n]].identifier = n
       /\ \A o \in auths :
            db.authz[o].identifier = n
              => db.authz[o].expires <= db.authz[f[n]].expires}

GetValidAuthorizations(p) ==
  /\ call[p].pc = "idle"
  /\ \E registrationID \in {1, 2}, names \in SUBSET Identifiers,
        now \in {1, 2}, failed \in BOOLEAN :
       LET c == [op |-> "GetValidAuthorizations", pc |-> "done",
                 registrationID |-> registrationID, names |-> names,
                 now |-> now, latest |-> <<>>, result |-> "error",
                 tx |-> "none", faulted |-> failed] IN
       IF names = {} \/ failed
       THEN call' = [call EXCEPT ![p] = c]
       ELSE \E latest \in LatestByName(
                            DB, ValidFor(DB, registrationID, names, now)) :
              call' = [call EXCEPT ![p] =
                         [c EXCEPT !.latest = latest, !.result = "ok"]]
  /\ NoWrite
  /\ UNCHANGED pre
  /\ UNCHANGED ledgerVars

\* --------------------------------------------------- issuance workflow

\* What the workflow that calls the authority passes for an authorization
\* it takes from creation to validity.
LifecycleInput == [snap |-> FALSE, lists |-> {<<0, 0>>, <<1, 1>>, <<1>>},
                   newStatus |-> {"pending"}, updateStatus |-> {"pending"},
                   finalStatus |-> {"valid"}, expires |-> {2, 3},
                   identifiers |-> {"example.com"}, regIDs |-> {1}]

NoEntry == [step |-> "none", first |-> <<>>, challs |-> <<>>]

\* The workflow's record of an authorization after the call c on it
\* returned: created, then updated with as many challenges, then finalized
\* to valid with the updated challenges; "failed" when one of these steps,
\* made without a storage error, returned an error; "off" after a call that
\* is none of these and changed the authorization.
Step(e, c) ==
  CASE c.op = "NewPendingAuthorization" ->
         IF c.result = "ok"
         THEN [step |-> "created", first |-> c.challs, challs |-> c.challs]
         ELSE e
    [] c.op = "UpdatePendingAuthorization" ->
         IF /\ e.step \in {"created", "updated"}
            /\ Len(c.challs) = Len(e.challs)
            /\ ~c.faulted
         THEN [e EXCEPT !.step = IF c.result = "ok" THEN "updated" ELSE "failed",
                        !.challs = c.challs]
         ELSE IF c.result = "ok" THEN [e EXCEPT !.step = "off"] ELSE e
    [] c.op = "FinalizeAuthorization" ->
         IF e.step = "updated" /\ c.challs = e.challs /\ ~c.faulted
         THEN [e EXCEPT !.step = IF c.result = "ok" THEN "finalized"
                                 ELSE "failed"]
         ELSE IF c.result = "ok" THEN [e EXCEPT !.step = "off"] ELSE e
    [] OTHER -> IF c.result = "ok" THEN [e EXCEPT !.step = "off"] ELSE e

Logged(wf, c) ==
  IF c.op = "GetValidAuthorizations" \/ c.id \notin AuthzIDs THEN wf
  ELSE [wf EXCEPT !.log[c.id] = Step(@, c)]

\* The call of p returns to the workflow w.
WorkflowReturn(p, w) ==
  /\ call[p].pc = "done"
  /\ call' = [call EXCEPT ![p] = Idle, ![w] = Logged(@, call[p])]
  /\ NoWrite
  /\ UNCHANGED pre
  /\ UNCHANGED ledgerVars

InitLifecycle ==
  /\ authz = <<>>
  /\ pendingAuthorizations = <<>>
  /\ challenges = [id \in AuthzIDs |-> <<>>]
  /\ pre = DB
  /\ call = [p \in Procs |->
               IF p = 1 THEN Idle
               ELSE [op |-> "workflow", pc |-> "-", result |-> "-",
                     tx |-> "none", faulted |-> FALSE,
                     log |-> [id \in AuthzIDs |-> NoEntry]]]
  /\ certificates = <<>>
  /\ certificateStatus = <<>>
  /\ issuedNames = {}
  /\ fqdnSets = {}

NextLifecycle ==
  \/ /\ \/ NewPendingAuthorization(1, LifecycleInput)
        \/ NewPendingGenerate(1)
        \/ NewPendingInsert(1)
        \/ UpdatePendingAuthorization(1, LifecycleInput)
        \/ UpdatePendingWrite(1)
        \/ FinalizeAuthorization(1, LifecycleInput)
        \/ FinalizeWrite(1)
        \/ DeactivateAuthorization(1, LifecycleInput)
        \/ DeactivateWrite(1)
     /\ UNCHANGED ledgerVars
  \/ GetValidAuthorizations(1)
  \/ WorkflowReturn(1, 2)

SpecLifecycle == InitLifecycle /\ [][NextLifecycle]_vars

\* C15: between calls, no step of create, update with as many challenges,
\* finalize to valid has failed; an authorization so updated or finalized
\* holds the challenges of the update, and the finalized one is valid.  A
\* GetValidAuthorizations that returned gives, for each name asked that has
\* a valid unexpired authorization of the registration, one that none of
\* them expires after, and nothing for the other names.
C15_Lifecycle ==
  /\ call[1].pc = "idle" =>
       \A id \in AuthzIDs :
         LET e == call[2].log[id] IN
         /\ e.step # "failed"
         /\ e.step \in {"updated", "finalized"} =>
              /\ id \in DOMAIN authz
              /\ Len(challenges[id]) = Len(e.first)
              /\ challenges[id] = e.challs
              /\ authz[id].status =
                   IF e.step = "updated" THEN "pending" ELSE "valid"
  /\ \A p \in Procs :
       ( /\ call[p].op = "GetValidAuthorizations"
         /\ call[p].pc = "done"
         /\ call[p].result = "ok" )
       => \A n \in call[p].names :
            LET auths == ValidFor(DB, call[p].registrationID, {n},
                                  call[p].now) IN
            IF auths = {} THEN n \notin DOMAIN call[p].latest
            ELSE /\ n \in DOMAIN call[p].latest
                 /\ call[p].latest[n] \in auths
                 /\ \A o \in auths :
                      authz[o].expires <= authz[call[p].latest[n]].expires

\* An authorization created with two challenges, updated to other values and
\* finalized has been returned by GetValidAuthorizations in preference to a
\* valid one that expires earlier.
C15_Witness ==
  \E p \in Procs, id \in AuthzIDs, o \in AuthzIDs :
    /\ call[p].op = "GetValidAuthorizations"
    /\ call[p].pc = "done"
    /\ call[p].result = "ok"
    /\ call[2].log[id].step = "finalized"
    /\ Len(call[2].log[id].first) = 2
    /\ call[2].log[id].first # call[2].log[id].challs
    /\ challenges[id] = call[2].log[id].challs
    /\ "example.com" \in DOMAIN call[p].latest
    /\ call[p].latest["example.com"] = id
    /\ o # id
    /\ o \in ValidFor(DB, call[p].registrationID, call[p].names, call[p].now)
    /\ authz[o].expires < authz[id].expires

\* ----------------------------------------------------------- FQDNSetExists

\* The name lists a caller asks about.
QueriedNames ==
  {<<>>, <<ExampleCom>>, <<WwwExampleCom>>, <<WwwExampleCom, ExampleCom>>,
   <<AExampleCom>>, <<AExampleCom, BExampleCom>>,
   <<BExampleCom, AExampleComUpper>>}

\* SELECT COUNT(1) FROM fqdnSets WHERE setHash = ? LIMIT 1
FQDNSetCount(db, setHash, failed) ==
  IF failed THEN [count |-> 0, err |-> TRUE]
  ELSE [count |-> Cardinality({r \in db.fqdnSets : r.setHash = setHash}),
        err |-> FALSE]

FQDNSetExists(p) ==
  /\ call[p].pc = "idle"
  /\ \E names \in QueriedNames, failed \in BOOLEAN :
       LET r == FQDNSetCount(Ledger, hashNames(names), failed) IN
       call' = [call EXCEPT ![p] =
                  [op |-> "FQDNSetExists", pc |-> "done", names |-> names,
                   exists |-> r.count > 0,
                   result |-> IF r.err THEN "error" ELSE "ok",
                   tx |-> "none", faulted |-> failed]]
  /\ UNCHANGED ledgerVars
  /\ UNCHANGED authzVars

NextDedup ==
  \/ AddCertificate(1)
  \/ FQDNSetExists(1)
  \/ LedgerReturn(1)

SpecDedup == InitLedger /\ [][NextDedup]_vars

\* C16: FQDNSetExists that returned without error says true exactly when a
\* certificate has been recorded whose names, lower-cased and without
\* repetition, are the names asked about, lower-cased and without repetition.
C16_ExistsForRecordedSet ==
  \A p \in Procs :
    ( /\ call[p].op = "FQDNSetExists"
      /\ call[p].pc = "done"
      /\ call[p].result = "ok" )
    => ( call[p].exists
         <=> \E s \in DOMAIN certificates :
               NormalSet(certificates[s].names) = NormalSet(call[p].names) )

\* A certificate recorded for three names, two alike but for case, has
\* been found under the two names in another order.
C16_Witness ==
  \E p \in Procs, s \in DOMAIN certificates :
    /\ call[p].op = "FQDNSetExists"
    /\ call[p].pc = "done"
    /\ call[p].result = "ok"
    /\ call[p].exists
    /\ Len(certificates[s].names) = 3
    /\ Len(call[p].names) = 2
    /\ call[p].names[1] # certificates[s].names[1]

\* C17: a DeactivateAuthorization that finds a status other than pending
\* and valid returns success and changes nothing.  Its write changes no
\* authorization but its own, and that one only from pending or valid to
\* deactivated, whatever happened since it read the status; with the row
\* as it was read and no storage error it does deactivate.
C17_ConditionalDeactivate ==
  [][\A p \in Procs :
       /\ ( /\ call[p].pc = "idle"
            /\ call'[p].op = "DeactivateAuthorization"
            /\ call'[p].dbStatus \in {"invalid", "deactivated"} )
          => /\ call'[p].pc = "done"
             /\ call'[p].result = "ok"
             /\ UNCHANGED <<authz, pendingAuthorizations, challenges>>
       /\ ( /\ call[p].op = "DeactivateAuthorization"
            /\ call[p].pc = "write"
            /\ call'[p].pc = "done" )
          => /\ \A id \in AuthzIDs \ {call[p].id} :
                  StoredStatus(id)' = StoredStatus(id)
             /\ challenges' = challenges
             /\ \/ StoredStatus(call[p].id)' = StoredStatus(call[p].id)
                \/ /\ StoredStatus(call[p].id) \in {"pending", "valid"}
                   /\ StoredStatus(call[p].id)' = "deactivated"
             /\ ( /\ ~call'[p].faulted
                  /\ call[p].id \in DOMAIN DB[call[p].table]
                  /\ StoredStatus(call[p].id) = call[p].dbStatus )
                => /\ StoredStatus(call[p].id)' = "deactivated"
                   /\ call'[p].result = "ok"]_vars

\* A DeactivateAuthorization that read pending has returned, and the
\* authorization, made invalid meanwhile, is invalid.
C17_Witness ==
  \E p \in Procs :
    /\ call[p].op = "DeactivateAuthorization"
    /\ call[p].pc = "done"
    /\ call[p].result = "ok"
    /\ call[p].dbStatus = "pending"
    /\ StoredStatus(call[p].id) = "invalid"

\* ------------------------------------------- revocation with missing rows

\* A store in which the certificate row, the status row, both or neither
\* exist for the serial; the tables are separate and only AddCertificate
\* keeps them together.
InitOrphan ==
  /\ authz = <<>>
  /\ pendingAuthorizations = <<>>
  /\ challenges = [id \in AuthzIDs |-> <<>>]
  /\ pre = DB
  /\ call = [p \in Procs |-> Idle]
  /\ issuedNames = {}
  /\ fqdnSets = {}
  /\ \E withCert \in SUBSET Serials, withStatus \in SUBSET Serials :
       /\ certificates = [s \in withCert |->
                            [names |-> <<WwwExampleCom>>, notBefore |-> 1]]
       /\ certificateStatus = [s \in withStatus |-> InitialStatus]

NextOrphan ==
  \E p \in Procs :
    \/ MarkCertificateRevoked(p)
    \/ MarkRevokedGet(p)
    \/ MarkRevokedUpdate(p)
    \/ LedgerReturn(p)

SpecOrphan == InitOrphan /\ [][NextOrphan]_vars

pendingStatuses == {"unknown", "pending", "processing"}

\* Registrations that own authorizations.
RegIDs == {1, 2}

\* SELECT COUNT(1) FROM <table>
\*   WHERE registrationID = ? AND expires > ? AND status IN pendingStatuses
PendingCount(db, table, regID, now) ==
  Cardinality({id \in DOMAIN db[table] :
                 /\ db[table][id].registrationID = regID
                 /\ db[table][id].expires > now
                 /\ db[table][id].status \in pendingStatuses})

\* The loop of CountPendingAuthorizations from table i on, with count the
\* sum so far; the query on table failedAt fails (0: none does).
RECURSIVE CountTables(_, _, _, _, _, _)
CountTables(db, regID, now, failedAt, i, sum) ==
  IF i > Len(authorizationTables) THEN [count |-> sum, err |-> FALSE]
  ELSE IF failedAt = i THEN [count |-> sum, err |-> FALSE]
  ELSE CountTables(db, regID, now, failedAt, i + 1,
                   sum + PendingCount(db, authorizationTables[i], regID, now))

CountPendingAuthorizations(p) ==
  /\ call[p].pc = "idle"
  /\ \E regID \in RegIDs, failedAt \in 0..Len(authorizationTables) :
       LET r == CountTables(DB, regID, 1, failedAt, 1, 0) IN
       call' = [call EXCEPT ![p] =
                  [op |-> "CountPendingAuthorizations", pc |-> "done",
                   regID |-> regID, now |-> 1, failedAt |-> failedAt,
                   count |-> r.count,
                   result |-> IF r.err THEN "error" ELSE "ok",
                   tx |-> "none", faulted |-> failedAt # 0]]
  /\ NoWrite
  /\ UNCHANGED pre
  /\ UNCHANGED ledgerVars

\* The tables of a running authority with two registrations: each ID
\* absent, in the legacy table or in authz, expired at time 1 or not.
OwnedRows(statuses) ==
  {Row(st, e, "example.com", reg) :
     st \in statuses, e \in Expiries, reg \in RegIDs}

InitCount ==
  /\ \E legacy \in SUBSET AuthzIDs :
       /\ pendingAuthorizations \in
            [legacy -> OwnedRows({"pending", "deactivated"})]
       /\ \E unified \in SUBSET (AuthzIDs \ legacy) :
            authz \in [unified -> OwnedRows(Statuses)]
  /\ challenges = [id \in AuthzIDs |-> <<>>]
  /\ pre = DB
  /\ call = [p \in Procs |-> Idle]
  /\ certificates = <<>>
  /\ certificateStatus = <<>>
  /\ issuedNames = {}
  /\ fqdnSets = {}

NextCount ==
  \/ CountPendingAuthorizations(1)
  \/ LedgerReturn(1)

SpecCount == InitCount /\ [][NextCount]_vars

\* C19: a CountPendingAuthorizations that returns without error returns the
\* number of unexpired authorizations of the registration with a pending
\* status over both tables, and one with a failed query returns an error.
C19_CountOrError ==
  \A p \in Procs :
    ( /\ call[p].op = "CountPendingAuthorizations"
      /\ call[p].pc = "done" )
    => /\ call[p].result = "ok"
            => call[p].count =
                 PendingCount(DB, "pendingAuthorizations", call[p].regID,
                              call[p].now)
                 + PendingCount(DB, "authz", call[p].regID, call[p].now)
       /\ call[p].faulted => call[p].result = "error"

\* ------------------------------------------------- multi-step mutations

\* What the caller of the multi-step mutations passes: lists of one and two
\* challenges, a status the handler accepts and one it refuses.
MutationInput == [snap |-> TRUE, lists |-> {<<0>>, <<1, 1>>},
                  newStatus |-> {"pending", "valid"},
                  updateStatus |-> {"pending", "valid"},
                  finalStatus |-> {"pending", "valid"},
                  expires |-> {2}, identifiers |-> {"example.com"},
                  regIDs |-> {1}]

\* The handlers that write several rows in one transaction.
MultiStep == {"NewPendingAuthorization", "UpdatePendingAuthorization",
              "FinalizeAuthorization", "AddCertificate",
              "MarkCertificateRevoked"}

InitMutations == InitWith({<<0>>})

\* One caller running the five handlers one after the other.
NextMutations ==
  \/ /\ \/ NewPendingAuthorization(1, MutationInput)
        \/ NewPendingGenerate(1)
        \/ NewPendingInsert(1)
        \/ UpdatePendingAuthorization(1, MutationInput)
        \/ UpdatePendingWrite(1)
        \/ FinalizeAuthorization(1, MutationInput)
        \/ FinalizeWrite(1)
        \/ Return(1, MutationInput)
     /\ UNCHANGED ledgerVars
  \/ AddCertificate(1)
  \/ MarkCertificateRevoked(1)
  \/ MarkRevokedGet(1)
  \/ MarkRevokedUpdate(1)

SpecMutations == InitMutations /\ [][NextMutations]_vars

\* The rows a multi-step mutation writes are all in the tables.
AllWritten(c) ==
  LET row == Row(c.status, c.expires, c.identifier, c.registrationID) IN
  CASE c.op = "NewPendingAuthorization" ->
         /\ c.id \in DOMAIN authz
         /\ authz[c.id] = [row EXCEPT !.status = "pending"]
         /\ challenges[c.id] = c.challs
    [] c.op = "UpdatePendingAuthorization" ->
         /\ c.id \in DOMAIN authz
         /\ authz[c.id] = row
         /\ challenges[c.id] = c.challs
    [] c.op = "FinalizeAuthorization" ->
         /\ c.id \in DOMAIN authz
         /\ authz[c.id] = row
         /\ c.id \notin DOMAIN pendingAuthorizations
         /\ challenges[c.id] = c.challs
    [] c.op = "AddCertificate" ->
         /\ c.der.serial \in DOMAIN certificates
         /\ certificates[c.der.serial] =
              [names |-> c.der.names, notBefore |-> c.der.notBefore]
         /\ c.der.serial \in DOMAIN certificateStatus
         /\ certificateStatus[c.der.serial] = InitialStatus
         /\ \A i \in 1..Len(c.der.names) :
              [reversedName |-> ReverseName(c.der.names[i]),
               serial |-> c.der.serial,
               notBefore |-> c.der.notBefore] \in issuedNames
         /\ [setHash |-> hashNames(c.der.names), serial |-> c.der.serial,
             issued |-> c.der.notBefore] \in fqdnSets
    [] c.op = "MarkCertificateRevoked" ->
         /\ c.serial \in DOMAIN certificateStatus
         /\ certificateStatus[c.serial] =
              [Revoked(c.read, c.now, c.reasonCode) EXCEPT !.LockCol = @ + 1]
    [] OTHER -> FALSE

Completed(p) == call[p].op \in MultiStep /\ AllWritten(call[p])

\* C20: a call of NewPendingAuthorization, UpdatePendingAuthorization,
\* FinalizeAuthorization, AddCertificate or MarkCertificateRevoked either
\* returns without error with all of its rows written, or, a step having
\* failed, returns an error with every table as it was before the call: no
\* part of its rows is committed.
C20_AllOrNothing ==
  [][\A p \in Procs :
       ( /\ call[p].pc # "done"
         /\ call'[p].pc = "done"
         /\ call'[p].op \in MultiStep )
       => IF call'[p].result = "ok" THEN Completed(p)'
          ELSE /\ call'[p].result = "error"
               /\ UNCHANGED <<authz, pendingAuthorizations, challenges>>
               /\ UNCHANGED ledgerVars
               /\ DB' = pre']_vars

\* An AddCertificate whose transaction was open met a storage error and
\* returned an error; the certificate is not in the ledger.
C20_Witness ==
  \E p \in Procs :
    /\ call[p].op = "AddCertificate"
    /\ call[p].pc = "done"
    /\ call[p].tx = "closed"
    /\ call[p].faulted
    /\ call[p].result = "error"
    /\ Len(call[p].der.names) > 0
    /\ call[p].der.serial \notin DOMAIN certificates

\* C21: a NewPendingAuthorization that returns without error has stored the
\* authorization with status pending whatever status was passed and one
\* challenge row per challenge passed, and returns that authorization with
\* each challenge carrying the ID of its row; no step of any handler
\* changes the number of challenge rows of a stored authorization.
C21_ChallengesAtCreation ==
  [][\A p \in Procs :
       /\ ( /\ call[p].pc = "write"
            /\ call'[p].pc = "done"
            /\ call'[p].op = "NewPendingAuthorization"
            /\ call'[p].result = "ok" )
          => LET c == call'[p] IN
             /\ StatusIn(DB, c.id) = "absent"
             /\ c.id \in DOMAIN authz'
             /\ authz'[c.id].status = "pending"
             /\ challenges'[c.id] = c.challs
             /\ c.out.status = "pending"
             /\ Len(c.out.challenges) = Len(c.challs)
             /\ \A i \in 1..Len(c.challs) :
                  /\ c.out.challenges[i].ID \in 1..Len(challenges'[c.id])
                  /\ challenges'[c.id][c.out.challenges[i].ID] = c.challs[i]
                  /\ c.out.challenges[i].val = c.challs[i]
                  /\ \A j \in 1..Len(c.challs) :
                       c.out.challenges[i].ID = c.out.challenges[j].ID
                         => i = j
       /\ \A id \in AuthzIDs :
            StatusIn(DB, id) # "absent"
              => Len(challenges'[id]) = Len(challenges[id])]_vars

\* A FinalizeAuthorization has returned without error for an authorization
\* it found pending in authz, where only NewPendingAuthorization puts one,
\* and the authorization has the two challenge rows it was created with.
C21_Witness ==
  \E p \in Procs :
    /\ call[p].op = "FinalizeAuthorization"
    /\ call[p].pc = "done"
    /\ call[p].result = "ok"
    /\ call[p].table = "authz"
    /\ call[p].dbStatus = "pending"
    /\ call[p].id \notin DOMAIN pendingAuthorizations
    /\ Len(challenges[call[p].id]) = 2

\* ------------------------------- RevokeAuthorizationsByDomain, overlapping

\* Two callers revoke by domain at once; a caller that has started goes on.
NextRevokeRace ==
  \E p \in Procs :
    \/ RevokeAuthorizationsByDomain(p)
    \/ RevokeFetch(p)
    \/ RevokeBatch(p)
    \/ RevokeReturn(p)

SpecRevokeRace ==
  /\ InitRevoke
  /\ [][NextRevokeRace]_vars
  /\ \A p \in Procs : WF_vars(RevokeFetch(p)) /\ WF_vars(RevokeBatch(p))

\* The fetched authorizations of caller p that are revoked in its table.
BatchRevoked(p) ==
  {id \in call[p].batch :
     /\ id \in DOMAIN DB[authorizationTables[call[p].tableIx]]
     /\ DB[authorizationTables[call[p].tableIx]][id].status = "revoked"}

\* C22: every RevokeAuthorizationsByDomain that has started returns, other
\* callers or none; and when revokeAuthorizations has not failed, either it
\* changed every authorization fetched, all are revoked and the loop goes
\* on, or the call returns an error with the counts so far, the rows just
\* changed included.
C22_TerminatesOrReportsShortfall ==
  /\ \A p \in Procs :
       (call[p].op = "RevokeAuthorizationsByDomain") ~> (call[p].pc = "done")
  /\ [][\A p \in Procs :
          ( /\ call[p].op = "RevokeAuthorizationsByDomain"
            /\ call[p].pc = "revoke"
            /\ call'[p] # call[p]
            /\ ~call'[p].faulted )
          => LET n == Cardinality(call[p].batch \ BatchRevoked(p))
                       - Cardinality({id \in call[p].batch : id \notin
                           DOMAIN DB[authorizationTables[call[p].tableIx]]})
             IN
             /\ call'[p].results[1] + call'[p].results[2] =
                  call[p].results[1] + call[p].results[2] + n
             /\ IF n = Cardinality(call[p].batch)
                THEN /\ call'[p].pc = "fetch"
                     /\ BatchRevoked(p)' = {}
                     /\ \A id \in call[p].batch :
                          StoredStatus(id)' = "revoked"
                ELSE /\ call'[p].pc = "done"
                     /\ call'[p].result = "error"]_vars

\* A caller fetched an authorization that the other caller revoked first,
\* and has returned an error.
C22_Witness ==
  \E p \in Procs :
    /\ call[p].op = "RevokeAuthorizationsByDomain"
    /\ call[p].pc = "done"
    /\ call[p].result = "error"
    /\ ~call[p].faulted
    /\ call[p].batch # {}
    /\ \A id \in call[p].batch : StoredStatus(id) = "revoked"

\* ------------------------------------------------ CountCertificatesByNames

\* The results countCertificatesByName can give for one domain: a failed
\* query returns no row.
CountOutcomes(index, domain, earliest, latest, failed) ==
  IF failed THEN {countCertificatesByName({}, TRUE)}
  ELSE LET rows == MatchingRows(index, domain, earliest, latest) IN
       {countCertificatesByName(rows \ left, FALSE) :
          left \in Unfetched(rows, max + 1)}

\* The loop of CountCertificatesByNames from domain i on, ret being the map
\* so far; the query for domain failedAt fails (0: none does).
RECURSIVE CountNames(_, _, _, _, _, _, _)
CountNames(index, domains, earliest, latest, failedAt, i, ret) ==
  IF i > Len(domains) THEN {[ret |-> ret, err |-> "nil"]}
  ELSE UNION
    {IF o.err # "nil" THEN {[ret |-> ret, err |-> o.err]}
     ELSE CountNames(index, domains, earliest, latest, failedAt, i + 1,
                     [d \in DOMAIN ret \cup {domains[i]} |->
                        IF d = domains[i] THEN o.n ELSE ret[d]]) :
       o \in CountOutcomes(index, domains[i], earliest, latest,
                           failedAt = i)}

\* The windows (earliest, latest] a caller asks about.
Windows == {<<0, 1>>, <<1, 2>>, <<1, 3>>}

\* The domain lists a caller asks about.
DomainLists == {<<ExampleCom>>, <<ExampleOrg, WwwExampleCom>>,
                <<WwwExampleCom, ExampleOrg, WwwExampleCom>>}

CountCertificatesByNames(p) ==
  /\ call[p].pc = "idle"
  /\ \E domains \in DomainLists, window \in Windows :
       \E failedAt \in 0..Len(domains) :
         \E r \in CountNames(issuedNames, domains, window[1], window[2],
                             failedAt, 1, [d \in {} |-> 0]) :
           call' = [call EXCEPT ![p] =
                      [op |-> "CountCertificatesByNames", pc |-> "done",
                       domains |-> domains, earliest |-> window[1],
                       latest |-> window[2], ret |-> r.ret, err |-> r.err,
                       result |-> IF r.err = "nil" THEN "ok" ELSE "error",
                       tx |-> "none", faulted |-> failedAt # 0]]
  /\ UNCHANGED ledgerVars
  /\ UNCHANGED authzVars

\* The issuedNames index of a long-running authority: a few certificates,
\* or max + 1 certificates for www.example.com of which the first is for
\* example.com too.
InitCountNames ==
  /\ authz = <<>>
  /\ pendingAuthorizations = <<>>
  /\ challenges = [id \in AuthzIDs |-> <<>>]
  /\ pre = DB
  /\ call = [p \in Procs |-> Idle]
  /\ certificates = <<>>
  /\ certificateStatus = <<>>
  /\ fqdnSets = {}
  /\ \E n \in {0, 1, max + 1}, other \in SUBSET OtherRows :
       /\ n = max + 1 => other = {SecondNameRow}
       /\ issuedNames = BulkRows(n) \cup other

NextCountNames ==
  \/ CountCertificatesByNames(1)
  \/ LedgerReturn(1)

SpecCountNames == InitCountNames /\ [][NextCountNames]_vars

\* The certificates with a name that is the domain or under it, issued in
\* (earliest, latest].
CertificatesFor(domain, earliest, latest) ==
  {r.serial : r \in MatchingRows(issuedNames, domain, earliest, latest)}

\* C23: a CountCertificatesByNames that returns without error returns a map
\* with an entry for each domain passed, the entry being the number of
\* certificates with a name that is the domain or under it issued in
\* (earliest, latest], each certificate counted once.
C23_CountPerDomain ==
  \A p \in Procs :
    ( /\ call[p].op = "CountCertificatesByNames"
      /\ call[p].pc = "done"
      /\ call[p].result = "ok" )
    => /\ DOMAIN call[p].ret =
            {call[p].domains[i] : i \in 1..Len(call[p].domains)}
       /\ \A d \in DOMAIN call[p].ret :
            call[p].ret[d] =
              Cardinality(CertificatesFor(d, call[p].earliest,
                                          call[p].latest))

\* ------------------------------------------------- transactions at return

\* GetAuthorization: Begin, getAuthz, Rollback on its error, Commit
\* otherwise.
GetAuthorization(p, in) ==
  /\ Enter(p, in)
  /\ \E id \in AuthzIDs,
        fault \in {f \in Faults : f.at \in {"none", "begin", "select",
                                            "commit"}} :
       LET c == [Idle EXCEPT !.op = "GetAuthorization", !.id = id,
                             !.faulted = fault.at # "none"]
           found == getAuthz(DB, id, fault.at = "select")
           seen == [c EXCEPT !.dbStatus = found.status, !.table = found.table]
       IN
       call' = [call EXCEPT ![p] =
                  IF fault.at = "begin" THEN Returned(c, FALSE, "none")
                  ELSE IF found.err THEN Returned(seen, FALSE, "closed")
                  ELSE Returned(seen, fault.at # "commit", "closed")]
  /\ NoWrite

\* The handlers that begin a transaction.
Transactional == MultiStep \cup {"GetAuthorization", "DeactivateAuthorization"}

\* One caller running the handlers that begin a transaction, one after the
\* other.
NextTransactions ==
  \/ /\ \/ GetAuthorization(1, MutationInput)
        \/ NewPendingAuthorization(1, MutationInput)
        \/ NewPendingGenerate(1)
        \/ NewPendingInsert(1)
        \/ UpdatePendingAuthorization(1, MutationInput)
        \/ UpdatePendingWrite(1)
        \/ FinalizeAuthorization(1, MutationInput)
        \/ FinalizeWrite(1)
        \/ DeactivateAuthorization(1, MutationInput)
        \/ DeactivateWrite(1)
        \/ Return(1, MutationInput)
     /\ UNCHANGED ledgerVars
  \/ AddCertificate(1)
  \/ MarkCertificateRevoked(1)
  \/ MarkRevokedGet(1)
  \/ MarkRevokedUpdate(1)

SpecTransactions == InitMutations /\ [][NextTransactions]_vars

\* C24: no handler that began a transaction has returned with the
\* transaction neither committed nor rolled back.
C24_NoOpenTransactionAtReturn ==
  \A p \in Procs :
    (call[p].pc = "done" /\ call[p].op \in Transactional)
      => call[p].tx # "open"

\* C25: a certificateStatus row appears by a successful AddCertificate for
\* its serial, with status good and no revocation date or reason; it never
\* disappears and is changed only by a MarkCertificateRevoked for its
\* serial, which leaves it revoked, so that a revoked status stays revoked;
\* an AddCertificate for a serial that has a row fails and leaves the row.
C25_StatusRowLifecycle ==
  [][\A s \in Serials :
       /\ (s \notin DOMAIN certificateStatus /\ s \in DOMAIN certificateStatus')
            => /\ certificateStatus'[s].status = "good"
               /\ certificateStatus'[s].revokedDate = 0
               /\ certificateStatus'[s].revokedReason = 0
               /\ \E p \in Procs :
                    /\ call[p].pc = "idle"
                    /\ call'[p].op = "AddCertificate"
                    /\ call'[p].der.serial = s
                    /\ call'[p].result = "ok"
       /\ s \in DOMAIN certificateStatus
            => /\ s \in DOMAIN certificateStatus'
               /\ certificateStatus[s].status = "revoked"
                    => certificateStatus'[s].status = "revoked"
               /\ certificateStatus'[s] # certificateStatus[s]
                    => /\ certificateStatus'[s].status = "revoked"
                       /\ \E p \in Procs :
                            /\ call[p].op = "MarkCertificateRevoked"
                            /\ call[p].pc = "write"
                            /\ call[p].serial = s
                            /\ call'[p].result = "ok"
               /\ \A p \in Procs :
                    ( /\ call[p].pc = "idle"
                      /\ call'[p].op = "AddCertificate"
                      /\ call'[p].der.serial = s )
                    => /\ call'[p].result = "error"
                       /\ certificateStatus'[s] = certificateStatus[s]]_vars

\* An AddCertificate for the serial of a revoked certificate has failed with
\* no storage error injected, and the status is revoked.
C25_Witness ==
  \E p \in Procs :
    /\ call[p].op = "AddCertificate"
    /\ call[p].pc = "done"
    /\ call[p].result = "error"
    /\ ~call[p].faulted
    /\ Len(call[p].der.names) > 0
    /\ call[p].der.serial \in DOMAIN certificateStatus
    /\ certificateStatus[call[p].der.serial].status = "revoked"

====
